---- MODULE Spec2Model ----
(***************************************************************************)
(* Ghostly Memory Bank: episode extraction and confidence-scored retrieval. *)
(* The store (episodes, raw_events), the extraction and retrieval handlers  *)
(* and the pure scoring functions, modelled from the TypeScript sources.    *)
(*                                                                         *)
(* Text the code inspects character by character (stderr, command,         *)
(* problem_summary, fix_sequence, keywords) is a sequence of one-character *)
(* strings; opaque text (cwd, project_hash, git_branch, session_id) is a   *)
(* string.  Numbers that are fractions in the code are exact rationals     *)
(* <<numerator, denominator>>.  A value that may be null is a set with at  *)
(* most one element.                                                       *)
(***************************************************************************)
EXTENDS Integers, Sequences, FiniteSets, TLC

\* ------------------------------------------------------------------ bounds
\* The clock advances in steps of TickMs; it stops at MaxTicks steps.
MaxTicks == 1
\* Capacity of the raw_events table in the model.
MaxRawEvents == 4
\* Capacity of the episodes table in the model.
MaxEpisodes == 2
\* The largest occurrence_count an episode reaches in the model.
MaxOccurrences == 2
\* The longest followingCommands a direct call of extractEpisode is given.
MaxWindow == 1
\* The largest maxResults retrieveSimilarEpisodes is called with.
MaxResults == 2
\* The longest followingCommands in the specification of the fix sequence.
MaxFixWindow == 6
\* The most invocations of extractEpisode suspended at their await at once.
MaxCalls == 2
\* The clock of the window specification stops at MaxLateTicks steps.
MaxLateTicks == 3

\* --------------------------------------------------------- optional values
None == {}
Some(v) == {v}
IsSome(o) == o # {}
TheVal(o) == CHOOSE v \in o : TRUE

\* ------------------------------------------------------------- characters
UpperChars == <<"A", "B", "C", "D", "E", "F", "G", "H", "I", "J", "K", "L", "M", "N", "O", "P", "Q", "R", "S", "T", "U", "V", "W", "X", "Y", "Z">>
LowerChars == <<"a", "b", "c", "d", "e", "f", "g", "h", "i", "j", "k", "l", "m", "n", "o", "p", "q", "r", "s", "t", "u", "v", "w", "x", "y", "z">>
DigitChars == {"0", "1", "2", "3", "4", "5", "6", "7", "8", "9"}

IsUpper(c) == \E i \in 1..26 : UpperChars[i] = c
IsLowerLetter(c) == \E i \in 1..26 : LowerChars[i] = c
ToLowerChar(c) == IF IsUpper(c) THEN LowerChars[CHOOSE i \in 1..26 : UpperChars[i] = c] ELSE c
\* \s of a JavaScript regular expression, over the characters of the model
IsWhitespace(c) == c \in {" ", "\n", "\t", "\r"}
\* \w
IsWordChar(c) == IsUpper(c) \/ IsLowerLetter(c) \/ c \in DigitChars \/ c = "_"
\* . (no line terminator)
IsDot(c) == c \notin {"\n", "\r"}

\* ---------------------------------------------------------------- strings
\* A sequence given as a function, enumerated once
Tup(f) == SubSeq(f, 1, Len(f))

ToLowerCase(s) == Tup([i \in 1..Len(s) |-> ToLowerChar(s[i])])

\* s.substring(0, n)
Substring0(s, n) == IF Len(s) <= n THEN s ELSE SubSeq(s, 1, n)

\* s.includes(p)
Includes(s, p) == \E i \in 0..(Len(s) - Len(p)) : SubSeq(s, i + 1, i + Len(p)) = p

TrimStart(s) ==
    LET n == Len(s)
        k == CHOOSE i \in 0..n : /\ \A j \in 1..i : IsWhitespace(s[j])
                                 /\ i = n \/ ~IsWhitespace(s[i + 1])
    IN  SubSeq(s, k + 1, n)

TrimEnd(s) ==
    LET n == Len(s)
        k == CHOOSE i \in 0..n : /\ \A j \in (i + 1)..n : IsWhitespace(s[j])
                                 /\ i = 0 \/ ~IsWhitespace(s[i])
    IN  SubSeq(s, 1, k)

\* s.trim()
Trim(s) == TrimEnd(TrimStart(s))

\* s.split(sep) for a non-empty separator string: SplitFrom[i] is the split
\* of the rest of s from index i on, one part for each leftmost occurrence of
\* sep
Split(s, sep) ==
    LET n == Len(s)
        m == Len(sep)
        SepAt(i) == i + m - 1 <= n /\ SubSeq(s, i, i + m - 1) = sep
        NextSep(i) == CHOOSE h \in i..(n + 1) :
                          /\ h = n + 1 \/ SepAt(h)
                          /\ \A k \in i..(h - 1) : ~SepAt(k)
        SplitFrom[i \in 1..(n + 1)] ==
            LET h == NextSep(i)
            IN  IF h = n + 1 THEN << SubSeq(s, i, n) >>
                ELSE << SubSeq(s, i, h - 1) >> \o SplitFrom[h + m]
    IN  SplitFrom[1]

\* s.split(/\s+/): a run of whitespace is one separator
SplitWhitespace(s) ==
    LET n == Len(s)
        \* the first whitespace at or after i, or n + 1
        NextWs(i) == CHOOSE h \in i..(n + 1) :
                         /\ h = n + 1 \/ IsWhitespace(s[h])
                         /\ \A k \in i..(h - 1) : ~IsWhitespace(s[k])
        \* the first character after the run of whitespace starting at h
        WsRunEnd(h) == CHOOSE j \in (h + 1)..(n + 1) :
                         /\ \A k \in h..(j - 1) : IsWhitespace(s[k])
                         /\ j = n + 1 \/ ~IsWhitespace(s[j])
        SplitWsFrom[i \in 1..(n + 1)] ==
            LET h == NextWs(i)
            IN  IF h = n + 1 THEN << SubSeq(s, i, n) >>
                ELSE << SubSeq(s, i, h - 1) >> \o SplitWsFrom[WsRunEnd(h)]
    IN  SplitWsFrom[1]

\* parts.join(sep)
Join(parts, sep) ==
    LET JoinTo[k \in 0..Len(parts)] ==
            IF k = 0 THEN <<>>
            ELSE IF k = 1 THEN parts[1]
            ELSE JoinTo[k - 1] \o sep \o parts[k]
    IN  JoinTo[Len(parts)]

\* array.slice(0, n)
Slice0(seq, n) == IF Len(seq) <= n THEN seq ELSE SubSeq(seq, 1, n)

\* [...new Set(array)]: first occurrences, in order
Unique(seq) ==
    LET UniqueTo[k \in 0..Len(seq)] ==
            IF k = 0 THEN <<>>
            ELSE IF \E j \in 1..(k - 1) : seq[j] = seq[k] THEN UniqueTo[k - 1]
            ELSE Append(UniqueTo[k - 1], seq[k])
    IN  UniqueTo[Len(seq)]

\* Sequences over S of length at most n
SeqsUpTo(S, n) == UNION {[1..k -> S] : k \in 0..n}

Range(seq) == {seq[i] : i \in 1..Len(seq)}

\* -------------------------------------------------------------- rationals
Gcd(a, b) ==
    LET Euclid[p \in Nat \X Nat] == IF p[2] = 0 THEN p[1] ELSE Euclid[<<p[2], p[1] % p[2]>>]
    IN  Euclid[<<a, b>>]
Abs(x) == IF x < 0 THEN -x ELSE x

\* n/d in lowest terms with a positive denominator
Rat(n, d) ==
    LET Reduced(g, s) == <<s * (n \div g), s * (d \div g)>>
    IN  Reduced(Gcd(Abs(n), Abs(d)), IF d < 0 THEN -1 ELSE 1)

RAdd(x, y) == Rat(x[1] * y[2] + y[1] * x[2], x[2] * y[2])
RMul(x, y) == Rat(x[1] * y[1], x[2] * y[2])
RLeq(x, y) == x[1] * y[2] <= y[1] * x[2]
RLess(x, y) == x[1] * y[2] < y[1] * x[2]
RMin(x, y) == IF RLeq(x, y) THEN x ELSE y
RZero == Rat(0, 1)
ROne == Rat(1, 1)

\* ------------------------------------------------------------------ types
\* types.ts: the fixed error markers
ERROR_PATTERNS ==
    << <<"e", "r", "r", "o", "r">>,
       <<"f", "a", "i", "l">>,
       <<"f", "a", "i", "l", "e", "d">>,
       <<"f", "a", "i", "l", "u", "r", "e">>,
       <<"e", "x", "c", "e", "p", "t", "i", "o", "n">>,
       <<"f", "a", "t", "a", "l">>,
       <<"E", " ">>,
       <<"E", "N", "O", "E", "N", "T">>,
       <<"E", "C", "O", "N", "N", "R", "E", "F", "U", "S", "E", "D">>,
       <<"E", "A", "C", "C", "E", "S">>,
       <<"E", "N", "O", "E", "X", "E", "C">>,
       <<"E", "R", "R", "_">>,
       <<"p", "a", "n", "i", "c">>,
       <<" ", "S", "e", "g", "m", "e", "n", "t", "a", "t", "i", "o", "n", " ", "f", "a", "u", "l", "t">>,
       <<"c", "o", "r", "e", " ", "d", "u", "m", "p", "e", "d">> >>

\* ------------------------------------------------------- event classifier
\* CryptoJS.MD5(cwd).toString().substring(0, 12), tabulated for the
\* directories of the model
Dirs == {"/srv/app", "/srv/lib"}

hashProjectPath(cwd) ==
    CASE cwd = "/srv/app" -> "8d9fbf108f79"
      [] cwd = "/srv/lib" -> "77759f3b32e1"

isError(stderr, exitCode) ==
    IF exitCode # 0 THEN TRUE
    ELSE LET lowerStderr == ToLowerCase(stderr)
         IN  \E k \in 1..Len(ERROR_PATTERNS) :
                 Includes(lowerStderr, ToLowerCase(ERROR_PATTERNS[k]))

\* Whether s has, from index j on, \s*(.+?)(?:\n|$): whitespace up to some m,
\* then characters other than line terminators up to a newline or the end
TailMatches(s, j) ==
    \E m \in j..Len(s) : \E e \in m..Len(s) :
        /\ \A k \in j..(m - 1) : IsWhitespace(s[k])
        /\ \A k \in m..e : IsDot(s[k])
        /\ (e = Len(s) \/ s[e + 1] = "\n")

\* Whether word (lower case) followed by ":" and a matching tail starts at i
WordColonAt(s, i, word) ==
    /\ i + Len(word) <= Len(s)
    /\ ToLowerCase(SubSeq(s, i, i + Len(word) - 1)) = word
    /\ s[i + Len(word)] = ":"
    /\ TailMatches(s, i + Len(word) + 1)

KwError == <<"e", "r", "r", "o", "r">>
KwException == <<"e", "x", "c", "e", "p", "t", "i", "o", "n">>
KwErrUnderscore == <<"e", "r", "r", "_">>

\* The least element of a non-empty set of indexes
Least(S) == CHOOSE x \in S : \A y \in S : x <= y

\* stderr.match(/(Error|Exception):\s*(.+?)(?:\n|$)/i): group 1 of the
\* leftmost match, or None
MatchErrorColon(s) ==
    LET Group(i) ==
            SubSeq(s, i, i + Len(IF WordColonAt(s, i, KwError) THEN KwError
                                 ELSE KwException) - 1)
        Leftmost(starts) == IF starts = {} THEN None ELSE Some(Group(Least(starts)))
    IN  Leftmost({i \in 1..Len(s) :
                    WordColonAt(s, i, KwError) \/ WordColonAt(s, i, KwException)})

\* The last index of the run of characters of the class (\w when word,
\* \s otherwise) that starts at i
RunEnd(s, i, word) ==
    LET ok(c) == IF word THEN IsWordChar(c) ELSE IsWhitespace(c)
    IN  CHOOSE r \in i..Len(s) :
            /\ \A k \in (i + 1)..r : ok(s[k])
            /\ (r = Len(s) \/ ~ok(s[r + 1]))

\* stderr.match(/(ERR_\w+)/i)
MatchErrCode(s) ==
    LET Group(i) == SubSeq(s, i, RunEnd(s, i + 4, TRUE))
        Leftmost(starts) == IF starts = {} THEN None ELSE Some(Group(Least(starts)))
    IN  Leftmost({i \in 1..Len(s) :
                    /\ i + 4 <= Len(s)
                    /\ ToLowerCase(SubSeq(s, i, i + 3)) = KwErrUnderscore
                    /\ IsWordChar(s[i + 4])})

\* Where "<word><whitespace>error" starting at i ends, or 0: r is the end of
\* the word, w the end of the whitespace
WordErrorEnd(s, i) ==
    LET AfterSpace(w) ==
            IF w + 5 <= Len(s) /\ ToLowerCase(SubSeq(s, w + 1, w + 5)) = KwError
            THEN w + 5 ELSE 0
        AfterWord(r) ==
            IF r >= Len(s) \/ ~IsWhitespace(s[r + 1]) THEN 0
            ELSE AfterSpace(RunEnd(s, r + 1, FALSE))
    IN  IF ~IsWordChar(s[i]) THEN 0 ELSE AfterWord(RunEnd(s, i, TRUE))

\* stderr.match(/(\w+\s+error)/i)
MatchWordError(s) ==
    LET Group(i) == SubSeq(s, i, WordErrorEnd(s, i))
        Leftmost(starts) == IF starts = {} THEN None ELSE Some(Group(Least(starts)))
    IN  Leftmost({i \in 1..Len(s) : WordErrorEnd(s, i) # 0})

NonBlank(l) == Trim(l) # <<>>

extractErrorSignature(stderr, command) ==
    LET FirstLine(lines) == IF lines # <<>> THEN lines[1] ELSE <<>>
        ErrorMatch(m1, m2, m3) == IF IsSome(m1) THEN m1 ELSE IF IsSome(m2) THEN m2 ELSE m3
        Signature(errorMatch, firstLine) ==
            IF IsSome(errorMatch) THEN Substring0(TheVal(errorMatch), 100)
            ELSE Substring0(firstLine, 100)
    IN  Signature(ErrorMatch(MatchErrorColon(stderr), MatchErrCode(stderr),
                             MatchWordError(stderr)),
                  FirstLine(SelectSeq(Split(stderr, <<"\n">>), NonBlank)))

\* embeddings.ts: the stop words of extractKeywords
commonWords ==
    { <<"t", "h", "e">>, <<"a">>, <<"a", "n">>, <<"a", "n", "d">>, <<"o", "r">>, <<"b", "u", "t">>,
      <<"i", "n">>, <<"o", "n">>, <<"a", "t">>, <<"t", "o">>, <<"f", "o", "r">>, <<"o", "f">>,
      <<"w", "i", "t", "h">>, <<"b", "y">>, <<"f", "r", "o", "m">>, <<"i", "s">>, <<"w", "a", "s">>,
      <<"a", "r", "e">>, <<"w", "e", "r", "e">>, <<"b", "e", "e", "n">>, <<"b", "e">>,
      <<"h", "a", "v", "e">>, <<"h", "a", "s">>, <<"h", "a", "d">>, <<"d", "o">>, <<"d", "o", "e", "s">>,
      <<"d", "i", "d">>, <<"w", "i", "l", "l">>, <<"w", "o", "u", "l", "d">>, <<"c", "o", "u", "l", "d">>,
      <<"s", "h", "o", "u", "l", "d">>, <<"m", "a", "y">>, <<"m", "i", "g", "h", "t">>,
      <<"m", "u", "s", "t">>, <<"c", "a", "n">>, <<"t", "h", "i", "s">>, <<"t", "h", "a", "t">>,
      <<"t", "h", "e", "s", "e">>, <<"t", "h", "o", "s", "e">>, <<"i">>, <<"y", "o", "u">>, <<"h", "e">>,
      <<"s", "h", "e">>, <<"i", "t">>, <<"w", "e">>, <<"t", "h", "e", "y">>, <<"w", "h", "a", "t">>,
      <<"w", "h", "i", "c", "h">>, <<"w", "h", "o">>, <<"w", "h", "e", "n">>, <<"w", "h", "e", "r", "e">>,
      <<"w", "h", "y">>, <<"h", "o", "w">>, <<"a", "l", "l">>, <<"e", "a", "c", "h">>,
      <<"e", "v", "e", "r", "y">>, <<"b", "o", "t", "h">>, <<"f", "e", "w">>, <<"m", "o", "r", "e">>,
      <<"m", "o", "s", "t">>, <<"o", "t", "h", "e", "r">>, <<"s", "o", "m", "e">>, <<"s", "u", "c", "h">>,
      <<"n", "o">>, <<"n", "o", "r">>, <<"n", "o", "t">>, <<"o", "n", "l", "y">>, <<"o", "w", "n">>,
      <<"s", "a", "m", "e">>, <<"s", "o">>, <<"t", "h", "a", "n">>, <<"t", "o", "o">>,
      <<"v", "e", "r", "y">>, <<"j", "u", "s", "t">>, <<"e", "r", "r", "o", "r">>,
      <<"f", "a", "i", "l", "e", "d">>, <<"f", "a", "i", "l">>, <<"f", "a", "i", "l", "e", "d">>,
      <<"f", "i", "l", "e">>, <<"m", "o", "d", "u", "l", "e">>, <<"i", "m", "p", "o", "r", "t">>,
      <<"e", "x", "p", "o", "r", "t">> }

IsKeywordChar(c) == IsLowerLetter(c) \/ c \in DigitChars \/ IsWhitespace(c)
KeepWord(word) == Len(word) > 2 /\ word \notin commonWords

extractKeywords(text) ==
    LET Cleaned(lower) ==
            Tup([i \in 1..Len(lower) |-> IF IsKeywordChar(lower[i]) THEN lower[i] ELSE " "])
        Words(cleaned) == SelectSeq(SplitWhitespace(cleaned), KeepWord)
    IN  Slice0(Unique(Words(Cleaned(ToLowerCase(text)))), 10)


\* ------------------------------------------------------ similarity engine
\* Numbers of an embedding are rationals; the square root is exact on the
\* perfect squares the vectors of the model have as squared magnitudes.
ISqrt(n) == CHOOSE r \in 0..n : r * r >= n /\ \A q \in 0..(r - 1) : q * q < n
RSqrt(x) == Rat(ISqrt(x[1]), ISqrt(x[2]))

\* The sum of a[i] * b[i]
Dot(a, b) ==
    LET DotTo[i \in 0..Len(a)] ==
            IF i = 0 THEN RZero ELSE RAdd(DotTo[i - 1], RMul(a[i], b[i]))
    IN  DotTo[Len(a)]

\* The cosine over the components both vectors have, without the test of
\* the lengths
cosineSimilarityOverPrefix(a, b) ==
    LET Quotient(dotProduct, den) ==
            Rat(dotProduct[1] * den[2], dotProduct[2] * den[1])
        Cosine(dotProduct, normA, normB) ==
            IF normA = RZero \/ normB = RZero THEN RZero
            ELSE Quotient(dotProduct, RMul(RSqrt(normA), RSqrt(normB)))
        Over(p, q) == Cosine(Dot(p, q), Dot(p, p), Dot(q, q))
    IN  IF Len(a) <= Len(b) THEN Over(a, SubSeq(b, 1, Len(a)))
        ELSE Over(SubSeq(a, 1, Len(b)), b)

cosineSimilarity(a, b) ==
    IF Len(a) # Len(b) THEN RZero
    ELSE LET Quotient(dotProduct, den) ==
                 Rat(dotProduct[1] * den[2], dotProduct[2] * den[1])
             Cosine(dotProduct, normA, normB) ==
                 IF normA = RZero \/ normB = RZero THEN RZero
                 ELSE Quotient(dotProduct, RMul(RSqrt(normA), RSqrt(normB)))
         IN  Cosine(Dot(a, b), Dot(a, a), Dot(b, b))

textSimilarity(text1, text2) ==
    LET Jaccard(words1, words2) ==
            Rat(Cardinality({x \in words1 : x \in words2}), Cardinality(words1 \cup words2))
    IN  Jaccard(Range(SplitWhitespace(ToLowerCase(text1))),
                Range(SplitWhitespace(ToLowerCase(text2))))

\* ------------------------------------------------------ confidence scorer
WeightSemantic == Rat(5, 10)
WeightProject == Rat(3, 10)
WeightCommand == Rat(2, 10)

\* The score with the weights of the project match and of the command
\* similarity exchanged
calculateConfidenceSwapped(semanticSimilarity, projectMatch, commandSimilarity) ==
    LET score == RAdd(RAdd(RMul(WeightSemantic, semanticSimilarity),
                           RMul(WeightCommand, IF projectMatch THEN ROne ELSE RZero)),
                      RMul(WeightProject, commandSimilarity))
    IN  RMin(score, ROne)

\* The score without Math.min
calculateConfidenceUnclamped(semanticSimilarity, projectMatch, commandSimilarity) ==
    RAdd(RAdd(RMul(WeightSemantic, semanticSimilarity),
              RMul(WeightProject, IF projectMatch THEN ROne ELSE RZero)),
         RMul(WeightCommand, commandSimilarity))

calculateConfidence(semanticSimilarity, projectMatch, commandSimilarity) ==
    LET score == RAdd(RAdd(RMul(WeightSemantic, semanticSimilarity),
                           RMul(WeightProject, IF projectMatch THEN ROne ELSE RZero)),
                      RMul(WeightCommand, commandSimilarity))
    IN  RMin(score, ROne)

CONFIDENCE_THRESHOLD == Rat(75, 100)

\* ------------------------------------------------------------------ store
\* new Uint8Array(numbers): each number truncated toward zero, modulo 256
ToUint8(x) ==
    LET t == IF x[1] >= 0 THEN x[1] \div x[2] ELSE -((-x[1]) \div x[2])
    IN  Rat(t % 256, 1)

\* The embedding column as insertEpisode/updateEpisode bind it
ToBlob(embedding) ==
    IF IsSome(embedding)
    THEN LET v == TheVal(embedding) IN Some(Tup([i \in 1..Len(v) |-> ToUint8(v[i])]))
    ELSE None

\* rowToEpisode: the row as the readers hand it out
rowToEpisode(row) ==
    [row EXCEPT !.embedding =
        IF IsSome(row.embedding)
        THEN LET v == TheVal(row.embedding) IN Some(Tup([i \in 1..Len(v) |-> ToUint8(v[i])]))
        ELSE None]

EmptyDb ==
    [episodes |-> <<>>, raw_events |-> <<>>,
     sqlite_sequence |-> [episodes |-> 0, raw_events |-> 0]]

\* INSERT INTO episodes ...; SELECT last_insert_rowid()
insertEpisode(d, episode) ==
    LET id == d.sqlite_sequence.episodes + 1
        row == [id |-> id,
                project_hash |-> episode.project_hash,
                directory |-> episode.directory,
                git_branch |-> episode.git_branch,
                problem_summary |-> episode.problem_summary,
                environment |-> episode.environment,
                fix_sequence |-> episode.fix_sequence,
                keywords |-> episode.keywords,
                embedding |-> ToBlob(episode.embedding),
                first_seen |-> episode.first_seen,
                last_seen |-> episode.last_seen,
                occurrence_count |-> episode.occurrence_count]
    IN  [db |-> [d EXCEPT !.episodes = Append(@, row), !.sqlite_sequence.episodes = id],
         id |-> id]

\* An update that writes first_seen and clears the embedding as well
updateEpisodeAnew(d, id, last_seen, occurrence_count) ==
    [d EXCEPT !.episodes =
        Tup([i \in 1..Len(@) |->
            IF @[i].id = id
            THEN [@[i] EXCEPT !.last_seen = last_seen, !.occurrence_count = occurrence_count,
                              !.first_seen = last_seen, !.embedding = None]
            ELSE @[i]])]

\* UPDATE episodes SET last_seen = ?, occurrence_count = ? WHERE id = ?
updateEpisode(d, id, last_seen, occurrence_count) ==
    [d EXCEPT !.episodes =
        Tup([i \in 1..Len(@) |->
            IF @[i].id = id
            THEN [@[i] EXCEPT !.last_seen = last_seen, !.occurrence_count = occurrence_count]
            ELSE @[i]])]

\* The lookup on the keywords column where the problem summary is meant
findSimilarEpisodeByKeywords(d, projectHash, problemSummary) ==
    LET hits == SelectSeq(d.episodes,
                          LAMBDA r : r.project_hash = projectHash
                                     /\ r.keywords = problemSummary)
    IN  IF hits = <<>> THEN None ELSE Some(rowToEpisode(hits[1]))

\* SELECT * FROM episodes WHERE project_hash = ? AND problem_summary = ? LIMIT 1
findSimilarEpisode(d, projectHash, problemSummary) ==
    LET hits == SelectSeq(d.episodes,
                          LAMBDA r : r.project_hash = projectHash
                                     /\ r.problem_summary = problemSummary)
    IN  IF hits = <<>> THEN None ELSE Some(rowToEpisode(hits[1]))

\* Stable sort: before[i][j] says rows[i] must precede rows[j]; elements
\* neither of which must precede the other keep their order
\* (Array.prototype.sort, and ORDER BY with ties left in rowid order)
StableSort(rows, before) ==
    LET n == Len(rows)
        pos(i) == 1 + Cardinality({j \in 1..n :
                        \/ before[j][i]
                        \/ (~before[i][j] /\ j < i)})
    IN  Tup([p \in 1..n |-> rows[CHOOSE i \in 1..n : pos(i) = p]])

\* SELECT * FROM episodes WHERE project_hash = ? ORDER BY last_seen DESC
getEpisodesByProject(d, projectHash) ==
    LET rows == SelectSeq(d.episodes, LAMBDA r : r.project_hash = projectHash)
        sorted == StableSort(rows, [i \in 1..Len(rows) |-> [j \in 1..Len(rows) |->
                                       rows[i].last_seen > rows[j].last_seen]])
    IN  Tup([i \in 1..Len(sorted) |-> rowToEpisode(sorted[i])])

\* INSERT INTO raw_events ...
insertRawEvent(d, event) ==
    LET id == d.sqlite_sequence.raw_events + 1
        row == [id |-> id,
                episode_id |-> event.episode_id,
                timestamp |-> event.timestamp,
                cwd |-> event.cwd,
                git_branch |-> event.git_branch,
                command |-> event.command,
                exit_code |-> event.exit_code,
                stderr |-> event.stderr,
                stdout_truncated |-> event.stdout_truncated,
                session_id |-> event.session_id]
    IN  [d EXCEPT !.raw_events = Append(@, row), !.sqlite_sequence.raw_events = id]

\* SELECT * FROM raw_events WHERE cwd = ? AND timestamp > ? ORDER BY timestamp DESC
getRecentEventsForDirectory(d, cwd, since) ==
    LET rows == SelectSeq(d.raw_events, LAMBDA r : r.cwd = cwd /\ r.timestamp > since)
    IN  StableSort(rows, [i \in 1..Len(rows) |-> [j \in 1..Len(rows) |->
                             rows[i].timestamp > rows[j].timestamp]])

\* DELETE FROM episodes, whatever the project
clearProjectAll(d, projectHash) ==
    [d EXCEPT !.episodes = SelectSeq(@, LAMBDA r : r.project_hash = "")]

\* DELETE FROM episodes WHERE project_hash = ?
clearProject(d, projectHash) ==
    [d EXCEPT !.episodes = SelectSeq(@, LAMBDA r : r.project_hash # projectHash)]

\* ------------------------------------------------------ episode extractor
\* os.platform() | os.arch() | process.version of the running process
getEnvironment == "linux | x64 | v20.0.0"

SepAnd == <<" ", "&", "&", " ">>
SepComma == <<",", " ">>
SepSpace == <<" ">>
UnknownFix == <<"U", "n", "k", "n", "o", "w", "n", " ", "f", "i", "x">>
FIVE_MINUTES == 5 * 60 * 1000

\* The commands and the stderr texts of the model
CmdEmpty == <<>>
CmdLs == <<"l", "s">>
CmdMake == <<"m", "a", "k", "e">>
ErrNone == <<>>
ErrEnoent == <<"E", "N", "O", "E", "N", "T">>
ErrColon == <<"E", "r", "r", "o", "r", ":", " ", "a">>

Commands == {CmdLs, CmdMake}
ExitCodes == {0, 1}
Stderrs == {ErrNone, ErrEnoent, ErrColon}

\* The classifier, the signature and the keywords of the texts of the model,
\* each computed once
FixTexts == {Join(w, SepAnd) : w \in SeqsUpTo(Commands, 2)} \cup {UnknownFix}
KeywordTexts ==
    {c \o SepSpace \o e \o SepSpace \o f : c \in Commands, e \in Stderrs, f \in FixTexts}
isErrorTable == [t \in Stderrs |-> isError(t, 0)] @@ <<>>
extractErrorSignatureTable == [t \in Stderrs |-> extractErrorSignature(t, <<>>)] @@ <<>>
extractKeywordsTable == [t \in KeywordTexts |-> extractKeywords(t)] @@ <<>>

EpisodeTexts ==
    LET Texts(signatures, keywords) ==
            signatures \cup {s \o SepSpace \o k : s \in signatures, k \in keywords}
    IN  Texts({extractErrorSignatureTable[e] : e \in Stderrs},
              {Join(extractKeywordsTable[t], SepComma) : t \in KeywordTexts})
ContextTexts == Stderrs \cup {e \o SepSpace \o c : e \in Stderrs, c \in Commands}
textSimilarityTable ==
    [p \in EpisodeTexts \X ContextTexts |-> textSimilarity(p[1], p[2])] @@ <<>>

IsErrorEvent(stderr, exitCode) ==
    LET Lookup(table) ==
            IF exitCode = 0 /\ stderr \in DOMAIN table THEN table[stderr]
            ELSE isError(stderr, exitCode)
    IN  Lookup(isErrorTable)
SignatureOf(stderr, command) ==
    LET Lookup(table) ==
            IF stderr \in DOMAIN table THEN table[stderr]
            ELSE extractErrorSignature(stderr, command)
    IN  Lookup(extractErrorSignatureTable)
KeywordsOf(text) ==
    LET Lookup(table) ==
            IF text \in DOMAIN table THEN table[text] ELSE extractKeywords(text)
    IN  Lookup(extractKeywordsTable)
SimilarityOf(text1, text2) ==
    LET Lookup(table, pair) ==
            IF pair \in DOMAIN table THEN table[pair] ELSE textSimilarity(text1, text2)
    IN  Lookup(textSimilarityTable, <<text1, text2>>)

\* The raw_events record extractEpisode and processEvent write for an event
RawEventOf(event, episode_id) ==
    [episode_id |-> episode_id,
     timestamp |-> event.timestamp,
     cwd |-> event.cwd,
     git_branch |-> event.git_branch,
     command |-> event.command,
     exit_code |-> event.exit_code,
     stderr |-> event.stderr,
     stdout_truncated |-> event.stdout_truncated,
     session_id |-> event.session_id]

\* followingCommands.filter(exit_code === 0).map(command).slice(0, 5)
\*   .join(' && ') || 'Unknown fix'
FixSequenceOf(followingCommands) ==
    LET ok == SelectSeq(followingCommands, LAMBDA e : e.exit_code = 0)
        fixCommands == Slice0(Tup([i \in 1..Len(ok) |-> ok[i].command]), 5)
        joined == Join(fixCommands, SepAnd)
    IN  IF joined = <<>> THEN UnknownFix ELSE joined

\* extractEpisode from the lookup to its await: the recurrence update, or the
\* episode assembled for a first occurrence (pending)
extractEpisodeLookup(d, clock, errorEvent, followingCommands) ==
    LET Episode(problemSignature, projectHash, fixSequence) ==
            [project_hash |-> projectHash,
             directory |-> errorEvent.cwd,
             git_branch |-> errorEvent.git_branch,
             problem_summary |-> problemSignature,
             environment |-> getEnvironment,
             fix_sequence |-> fixSequence,
             \* keywordsText = `${command} ${stderr} ${fixSequence}`
             keywords |-> Join(KeywordsOf(errorEvent.command \o SepSpace \o errorEvent.stderr
                                          \o SepSpace \o fixSequence), SepComma),
             embedding |-> None,
             first_seen |-> errorEvent.timestamp,
             last_seen |-> clock,
             occurrence_count |-> 1]
        Outcome(problemSignature, projectHash, existing) ==
            IF IsSome(existing)
            THEN [db |-> updateEpisode(d, TheVal(existing).id, clock,
                                       TheVal(existing).occurrence_count + 1),
                  pending |-> None]
            ELSE [db |-> d,
                  pending |-> Some(Episode(problemSignature, projectHash,
                                           FixSequenceOf(followingCommands)))]
        Lookup(problemSignature, projectHash) ==
            Outcome(problemSignature, projectHash,
                    findSimilarEpisode(d, projectHash, problemSignature))
    IN  Lookup(SignatureOf(errorEvent.stderr, errorEvent.command),
               hashProjectPath(errorEvent.cwd))

\* extractEpisode without its early return on an empty window
extractEpisodeBeginUnguarded(d, clock, errorEvent, followingCommands) ==
    extractEpisodeLookup(d, clock, errorEvent, followingCommands)

\* extractEpisode up to its await: the early return on an empty window, then
\* the lookup
extractEpisodeBegin(d, clock, errorEvent, followingCommands) ==
    IF Len(followingCommands) = 0 THEN [db |-> d, pending |-> None]
    ELSE extractEpisodeLookup(d, clock, errorEvent, followingCommands)

\* The loop over the window alone, the triggering error left out
InsertRawEventsOfWindow(d, events, episode_id) ==
    LET InsertTo[k \in 1..Len(events)] ==
            IF k = 1 THEN d
            ELSE insertRawEvent(InsertTo[k - 1], RawEventOf(events[k], episode_id))
    IN  InsertTo[Len(events)]

\* for (const event of allEvents) insertRawEvent({ ...event, episode_id })
InsertRawEvents(d, events, episode_id) ==
    LET InsertTo[k \in 0..Len(events)] ==
            IF k = 0 THEN d
            ELSE insertRawEvent(InsertTo[k - 1], RawEventOf(events[k], episode_id))
    IN  InsertTo[Len(events)]

\* extractEpisode after its await, giving the episode up when the provider
\* gave no vector
extractEpisodeEndNeedingVector(d, pending, embedding, allEvents) ==
    IF IsSome(embedding)
    THEN [db |-> InsertRawEvents(insertEpisode(d, [pending EXCEPT !.embedding = embedding]).db,
                                 allEvents, Some(d.sqlite_sequence.episodes + 1)),
          returned |-> Some([id |-> d.sqlite_sequence.episodes + 1]
                            @@ [pending EXCEPT !.embedding = embedding])]
    ELSE [db |-> d, returned |-> None]

\* extractEpisode after its await: the embedding attached when there is one,
\* the insert, and the raw events of the episode
extractEpisodeEnd(d, pending, embedding, allEvents) ==
    LET Inserted(episode, ins) ==
            [db |-> InsertRawEvents(ins.db, allEvents, Some(ins.id)),
             returned |-> Some([id |-> ins.id] @@ episode)]
        Insert(episode) == Inserted(episode, insertEpisode(d, episode))
    IN  Insert(IF IsSome(embedding) THEN [pending EXCEPT !.embedding = embedding]
               ELSE pending)

extractEpisode(d, clock, errorEvent, followingCommands, embedding) ==
    LET Resume(begun) ==
            IF IsSome(begun.pending)
            THEN extractEpisodeEnd(begun.db, TheVal(begun.pending), embedding,
                                   <<errorEvent>> \o followingCommands)
            ELSE [db |-> begun.db, returned |-> None]
    IN  Resume(extractEpisodeBegin(d, clock, errorEvent, followingCommands))

\* The followingEvents of processEvent, read from the store d
FollowingEvents(d, clock, event) ==
    LET fiveMinutesAgo == clock - FIVE_MINUTES
        Ascending(later) ==
            StableSort(later, [i \in 1..Len(later) |-> [j \in 1..Len(later) |->
                                  later[i].timestamp < later[j].timestamp]])
    IN  Ascending(SelectSeq(getRecentEventsForDirectory(d, event.cwd, fiveMinutesAgo),
                            LAMBDA e : e.timestamp > event.timestamp))

processEvent(d, clock, event, embedding) ==
    LET Extracted(followingEvents, done) ==
            [db |-> done.db, returned |-> done.returned, following |-> followingEvents]
        Extract(stored, followingEvents) ==
            Extracted(followingEvents,
                      extractEpisode(stored, clock, event, followingEvents, embedding))
        Recorded(stored) ==
            IF ~IsErrorEvent(event.stderr, event.exit_code)
            THEN [db |-> stored, returned |-> None, following |-> <<>>]
            ELSE Extract(stored, FollowingEvents(stored, clock, event))
    IN  Recorded(insertRawEvent(d, RawEventOf(event, None)))

\* ------------------------------------------------- retrieval orchestrator
\* shouldRetrieve with the exit-code test alone
shouldRetrieveOnExitCode(context) ==
    IF context.exit_code # 0 THEN TRUE ELSE FALSE

shouldRetrieve(context) ==
    IF context.exit_code # 0 THEN TRUE
    ELSE LET lowerStderr == ToLowerCase(context.stderr)
         IN  IF \E k \in 1..Len(ERROR_PATTERNS) :
                    Includes(lowerStderr, ToLowerCase(ERROR_PATTERNS[k]))
             THEN TRUE ELSE FALSE

\* The trigger for the stderr texts of the model, computed once
shouldRetrieveTable ==
    [t \in Stderrs |-> shouldRetrieve([exit_code |-> 0, stderr |-> t])] @@ <<>>
ShouldRetrieveFor(context) ==
    LET Lookup(table) ==
            IF context.exit_code = 0 /\ context.stderr \in DOMAIN table
            THEN table[context.stderr]
            ELSE shouldRetrieve(context)
    IN  Lookup(shouldRetrieveTable)

\* One candidate of retrieveSimilarEpisodes scored against the context
ScoreEpisode(episode, context, projectHash, currentEmbedding) ==
    LET projectMatch == episode.project_hash = projectHash
        Result(similarity, commandSimilarity) ==
            [episode |-> episode, similarity |-> similarity,
             confidence |-> calculateConfidence(similarity, projectMatch, commandSimilarity)]
    IN  Result(IF IsSome(currentEmbedding) /\ IsSome(episode.embedding)
               THEN cosineSimilarity(TheVal(currentEmbedding), TheVal(episode.embedding))
               ELSE SimilarityOf(episode.problem_summary \o SepSpace \o episode.keywords,
                                 context.stderr \o SepSpace \o context.command),
               SimilarityOf(episode.problem_summary, context.stderr))

\* The threshold test with > where the code has >=
KeepResultAbove(r) == RLess(CONFIDENCE_THRESHOLD, r.confidence)

\* The threshold test left out: every scored candidate is a result
KeepResultAny(r) == r.confidence = r.confidence

\* if (confidence >= CONFIDENCE_THRESHOLD)
KeepResult(r) == RLeq(CONFIDENCE_THRESHOLD, r.confidence)

retrieveSimilarEpisodes(d, context, maxResults, currentEmbedding) ==
    LET \* results.sort((a, b) => b.confidence - a.confidence).slice(0, maxResults)
        Ranked(results) ==
            Slice0(StableSort(results, [i \in 1..Len(results) |-> [j \in 1..Len(results) |->
                                  RLess(results[j].confidence, results[i].confidence)]]),
                   maxResults)
        Scored(projectHash, projectEpisodes) ==
            IF Len(projectEpisodes) = 0 THEN <<>>
            ELSE Ranked(SelectSeq(Tup([i \in 1..Len(projectEpisodes) |->
                                         ScoreEpisode(projectEpisodes[i], context, projectHash,
                                                      currentEmbedding)]),
                                  KeepResult))
        ForProject(projectHash) == Scored(projectHash, getEpisodesByProject(d, projectHash))
    IN  ForProject(hashProjectPath(context.cwd))

\* The values formatRetrievalResult prints
formatRetrievalResult(result) ==
    [last_seen |-> result.episode.last_seen,
     problem |-> result.episode.problem_summary,
     fix |-> result.episode.fix_sequence,
     occurrences |-> result.episode.occurrence_count,
     confidence |-> result.confidence]

suggestNextStep(result) ==
    LET fixCommands == Split(result.episode.fix_sequence, SepAnd)
    IN  IF Len(fixCommands) > 0 /\ Trim(fixCommands[1]) # <<>>
        THEN Some(Trim(fixCommands[1]))
        ELSE None

NoSuggestion == [shouldShow |-> FALSE, message |-> None, suggestedCommand |-> None]

\* retrieveAndSuggest without the trigger test
retrieveAndSuggestUntriggered(d, context, currentEmbedding) ==
    LET Suggest(results) ==
            IF Len(results) = 0 THEN NoSuggestion
            ELSE [shouldShow |-> TRUE,
                  message |-> Some(formatRetrievalResult(results[1])),
                  suggestedCommand |-> suggestNextStep(results[1])]
    IN  Suggest(retrieveSimilarEpisodes(d, context, 1, currentEmbedding))

retrieveAndSuggest(d, context, currentEmbedding) ==
    IF ~ShouldRetrieveFor(context) THEN NoSuggestion
    ELSE LET Suggest(results) ==
                 IF Len(results) = 0 THEN NoSuggestion
                 ELSE [shouldShow |-> TRUE,
                       message |-> Some(formatRetrievalResult(results[1])),
                       suggestedCommand |-> suggestNextStep(results[1])]
         IN  Suggest(retrieveSimilarEpisodes(d, context, 1, currentEmbedding))

\* ------------------------------------------------------- inputs and state
Branches == {"main"}
SessionIds == {"host-1"}

\* The clock: Date.now() in milliseconds, advancing TickMs at a time
TickMs == 2 * 60 * 1000
Times == {k * TickMs : k \in 0..MaxTicks}

TerminalEvent(timestamp, cwd, command, exit_code, stderr) ==
    [timestamp |-> timestamp, cwd |-> cwd, git_branch |-> "main", command |-> command,
     exit_code |-> exit_code, stderr |-> stderr, stdout_truncated |-> <<>>,
     session_id |-> "host-1", project_hash |-> hashProjectPath(cwd)]

\* The embedding provider: no vector (no key, network error), or a vector
ProviderVectors ==
    { <<Rat(6, 10), Rat(8, 10)>>, <<Rat(3, 1), Rat(4, 1)>> }
EmbeddingOutcomes == {None} \cup {Some(v) : v \in ProviderVectors}

VARIABLES
    db,     \* the database of the process: episodes, raw_events, sqlite_sequence
    file,   \* the database file as saveDb last wrote it
    now,    \* Date.now()
    calls,  \* the invocations of extractEpisode suspended at their await
    last    \* the last call: its arguments and what it returned

vars == <<db, file, now, calls, last>>

Idle ==
    [op |-> "none", event |-> None, window |-> <<>>, returned |-> None,
     context |-> None, maxResults |-> 0, results |-> <<>>, suggestion |-> NoSuggestion,
     embedding |-> None, args |-> <<>>, confidence |-> None, similarity |-> None]

Init ==
    /\ db = EmptyDb
    /\ file = EmptyDb
    /\ now = 0
    /\ calls = <<>>
    /\ last = Idle

\* The tables of d fit the model: the specifications stop where a call would
\* grow them further
Fits(d) ==
    /\ Len(d.raw_events) <= MaxRawEvents
    /\ Len(d.episodes) <= MaxEpisodes
    /\ d.sqlite_sequence.episodes <= MaxEpisodes
    /\ \A i \in 1..Len(d.episodes) : d.episodes[i].occurrence_count <= MaxOccurrences

\* saveDb: the whole database written to the file
Saved(d) == d

Tick ==
    /\ now < MaxTicks * TickMs
    /\ now' = now + TickMs
    /\ last' = Idle
    /\ UNCHANGED <<db, file, calls>>

ContextOf(event) ==
    [cwd |-> event.cwd, command |-> event.command, exit_code |-> event.exit_code,
     stderr |-> event.stderr, git_branch |-> event.git_branch,
     project_hash |-> event.project_hash]

\* processEvent(event) run to completion
ProcessEventCall(event, embedding) ==
    \E done \in {processEvent(db, now, event, embedding)} :
        /\ db' = done.db
        /\ file' = Saved(done.db)
        /\ last' = [Idle EXCEPT !.op = "processEvent", !.event = Some(event),
                                !.window = done.following, !.returned = done.returned]
        /\ UNCHANGED <<now, calls>>

\* extractEpisode(errorEvent, followingCommands) run to completion
ExtractEpisodeCall(errorEvent, followingCommands, embedding) ==
    \E done \in {extractEpisode(db, now, errorEvent, followingCommands, embedding)} :
        /\ db' = done.db
        /\ file' = Saved(done.db)
        /\ last' = [Idle EXCEPT !.op = "extractEpisode", !.event = Some(errorEvent),
                                !.window = followingCommands, !.returned = done.returned]
        /\ UNCHANGED <<now, calls>>

\* extractEpisode(errorEvent, followingCommands) up to `await
\* generateEpisodeEmbedding`: it has returned null, or it is suspended with the
\* episode it is about to insert
ExtractEpisodeStart(errorEvent, followingCommands) ==
    \E begun \in {extractEpisodeBegin(db, now, errorEvent, followingCommands)} :
        /\ Len(calls) < MaxCalls
        /\ db' = begun.db
        /\ file' = IF begun.db = db THEN file ELSE Saved(begun.db)
        /\ calls' = IF IsSome(begun.pending)
                    THEN Append(calls, [pending |-> TheVal(begun.pending),
                                        event |-> errorEvent,
                                        window |-> followingCommands])
                    ELSE calls
        /\ last' = [Idle EXCEPT !.op = "extractEpisode.start", !.event = Some(errorEvent),
                                !.window = followingCommands]
        /\ UNCHANGED now

\* The k-th suspended extractEpisode resumes with the provider's answer:
\* insertEpisode, then the raw events
ExtractEpisodeResume(k, embedding) ==
    \E call \in {calls[k]} :
    \E done \in {extractEpisodeEnd(db, call.pending, embedding,
                                   <<call.event>> \o call.window)} :
        /\ db' = done.db
        /\ file' = Saved(done.db)
        /\ calls' = SubSeq(calls, 1, k - 1) \o SubSeq(calls, k + 1, Len(calls))
        /\ last' = [Idle EXCEPT !.op = "extractEpisode", !.event = Some(call.event),
                                !.window = call.window, !.returned = done.returned,
                                !.embedding = embedding]
        /\ UNCHANGED now

\* The clear command of the CLI
ClearProjectCall(projectPath) ==
    \E cleared \in {clearProject(db, hashProjectPath(projectPath))} :
        /\ db' = cleared
        /\ file' = Saved(cleared)
        /\ last' = [Idle EXCEPT !.op = "clearProject", !.args = <<projectPath>>]
        /\ UNCHANGED <<now, calls>>

\* retrieveSimilarEpisodes(context, maxResults)
RetrieveSimilarCall(context, maxResults, embedding) ==
    /\ last' = [Idle EXCEPT !.op = "retrieveSimilarEpisodes", !.context = Some(context),
                            !.maxResults = maxResults, !.embedding = embedding,
                            !.results = retrieveSimilarEpisodes(db, context, maxResults, embedding)]
    /\ UNCHANGED <<db, file, now, calls>>

\* retrieveAndSuggest(context)
RetrieveAndSuggestCall(context, embedding) ==
    /\ last' = [Idle EXCEPT !.op = "retrieveAndSuggest", !.context = Some(context),
                            !.embedding = embedding,
                            !.suggestion = retrieveAndSuggest(db, context, embedding)]
    /\ UNCHANGED <<db, file, now, calls>>

\* calculateConfidence(semanticSimilarity, projectMatch, commandSimilarity)
CalculateConfidenceCall(semanticSimilarity, projectMatch, commandSimilarity) ==
    /\ last' = [Idle EXCEPT !.op = "calculateConfidence",
                            !.args = <<semanticSimilarity, projectMatch, commandSimilarity>>,
                            !.confidence = Some(calculateConfidence(semanticSimilarity,
                                                                    projectMatch,
                                                                    commandSimilarity))]
    /\ UNCHANGED <<db, file, now, calls>>

\* textSimilarity(text1, text2)
TextSimilarityCall(text1, text2) ==
    /\ last' = [Idle EXCEPT !.op = "textSimilarity", !.args = <<text1, text2>>,
                            !.similarity = Some(textSimilarity(text1, text2))]
    /\ UNCHANGED <<db, file, now, calls>>

\* cosineSimilarity(a, b)
CosineSimilarityCall(a, b) ==
    /\ last' = [Idle EXCEPT !.op = "cosineSimilarity", !.args = <<a, b>>,
                            !.similarity = Some(cosineSimilarity(a, b))]
    /\ UNCHANGED <<db, file, now, calls>>

\* handleTerminalEvent(command, exitCode, stderr, stdout) in directory cwd:
\* captureEvent, processEvent, then retrieveAndSuggest
HandleTerminalEvent(cwd, command, exitCode, stderr, embedding1, embedding2) ==
    \E event \in {TerminalEvent(now, cwd, command, exitCode, Substring0(stderr, 5000))} :
    \E done \in {processEvent(db, now, event, embedding1)} :
        /\ db' = done.db
        /\ file' = Saved(done.db)
        /\ last' = [Idle EXCEPT !.op = "handleTerminalEvent", !.event = Some(event),
                                !.window = done.following, !.returned = done.returned,
                                !.context = Some(ContextOf(event)),
                                !.suggestion = retrieveAndSuggest(done.db, ContextOf(event),
                                                                  embedding2)]
        /\ UNCHANGED <<now, calls>>

\* --------------------------------------------------------- specification
\* Sequential use of the extractor and of the clear command: every call runs to
\* completion before the next one starts, and no embedding key is configured.

\* What running a command yields: its exit code and its stderr
Outcomes == {<<0, ErrNone>>, <<1, ErrEnoent>>}
ErrorOutcomes == {<<1, ErrEnoent>>, <<0, ErrColon>>}

\* Events handed to processEvent: captured now, or a failure captured one tick
\* ago that arrives late
Events ==
    {TerminalEvent(now, cwd, CmdLs, o[1], o[2]) : cwd \in Dirs, o \in Outcomes}
    \cup {TerminalEvent(now - TickMs, cwd, CmdLs, 1, ErrEnoent) : cwd \in {p \in Dirs : now > 0}}

\* Error events handed to extractEpisode directly
ErrorEvents ==
    {TerminalEvent(now, cwd, CmdLs, o[1], o[2]) : cwd \in Dirs, o \in ErrorOutcomes}

\* What a direct caller of extractEpisode passes as followingCommands: events
\* of the same directory, not earlier than the error
FollowUps(errorEvent) ==
    {TerminalEvent(now, errorEvent.cwd, CmdLs, x, ErrNone) : x \in ExitCodes}

Next ==
    \/ Tick
    \/ \E e \in Events : ProcessEventCall(e, None) /\ Fits(db')
    \/ \E e \in ErrorEvents : \E w \in SeqsUpTo(FollowUps(e), MaxWindow) :
         ExtractEpisodeCall(e, w, None) /\ Fits(db')
    \/ \E p \in Dirs : ClearProjectCall(p)

Spec == Init /\ [][Next]_vars

\* ------------------------------------------------------------- properties
\* The rows of d.episodes with the project identity and the signature of event
EpisodesFor(d, event) ==
    {i \in 1..Len(d.episodes) :
        /\ d.episodes[i].project_hash = hashProjectPath(event.cwd)
        /\ d.episodes[i].problem_summary = SignatureOf(event.stderr, event.command)}

\* The last call was an extraction (extractEpisode, directly or through
\* processEvent) of an error event
ExtractedError(l) ==
    /\ l.op \in {"extractEpisode", "processEvent"}
    /\ IsSome(l.event)
    /\ IsErrorEvent(TheVal(l.event).stderr, TheVal(l.event).exit_code)

\* C1: after any sequence of events processed one at a time (processEvent,
\* extractEpisode, clearProject), the store holds at most one episode for each
\* pair of project_hash and problem_summary.
C1_OneEpisodePerSignature ==
    \A i, j \in 1..Len(db.episodes) :
        (/\ db.episodes[i].project_hash = db.episodes[j].project_hash
         /\ db.episodes[i].problem_summary = db.episodes[j].problem_summary) => i = j

\* A recurrence was merged into its episode while another episode is stored
C1_Witness ==
    /\ Len(db.episodes) = 2
    /\ \E i \in 1..2 : db.episodes[i].occurrence_count = 2
    /\ ExtractedError(last)

\* C3, as claimed: processing an error event whose project identity and
\* signature already have an episode creates no second episode, strictly
\* increases that episode's occurrence_count and does not move its last_seen
\* back, whatever the events that follow it are.
C3_SecondOccurrenceCounted ==
    [][(ExtractedError(last') /\ EpisodesFor(db, TheVal(last'.event)) # {})
        => /\ Len(db'.episodes) = Len(db.episodes)
           /\ \A i \in EpisodesFor(db, TheVal(last'.event)) :
                /\ db'.episodes[i].occurrence_count > db.episodes[i].occurrence_count
                /\ db'.episodes[i].last_seen >= db.episodes[i].last_seen]_vars

\* C6: an extraction of an error event with no following events returns
\* nothing and leaves the episodes, with all their fields, as they were.
C6_EmptyWindowLearnsNothing ==
    [][(ExtractedError(last') /\ last'.window = <<>>)
        => (last'.returned = None /\ db'.episodes = db.episodes)]_vars

\* An error event with no following events was extracted while its signature
\* has no episode and another episode is stored
C6_Witness ==
    /\ ExtractedError(last)
    /\ last.window = <<>>
    /\ db.episodes # <<>>
    /\ EpisodesFor(db, TheVal(last.event)) = {}

\* ---------------------------------------------- the confidence scorer alone
\* Similarities in tenths: below 0 and up to 1 as the cosine gives them, and
\* above 1 where only the clamp keeps the score at 1
Similarities == {Rat(k, 10) : k \in (-10)..12}
CommandSimilarities == {Rat(k, 10) : k \in 0..12}

NextConfidence ==
    \E s \in Similarities : \E p \in BOOLEAN : \E c \in CommandSimilarities :
        CalculateConfidenceCall(s, p, c)

SpecConfidence == Init /\ [][NextConfidence]_vars

\* The numerator and the denominator of 0.5 s + 0.3 p + 0.2 c, in tenths of
\* the product of the denominators of s and c
LinearNum(s, p, c) ==
    5 * s[1] * c[2] + 3 * (IF p THEN 1 ELSE 0) * s[2] * c[2] + 2 * c[1] * s[2]
LinearDen(s, c) == 10 * s[2] * c[2]

\* r is min(1, 0.5 s + 0.3 p + 0.2 c)
IsClampedLinear(r, s, p, c) ==
    IF LinearNum(s, p, c) >= LinearDen(s, c) THEN r[1] = r[2]
    ELSE r[1] * LinearDen(s, c) = r[2] * LinearNum(s, p, c)

\* C9: calculateConfidence(s, p, c) is min(1, 0.5 s + 0.3 (1 if p else 0) +
\* 0.2 c) for all inputs; (0.9, true, 0.4) gives 0.83, at or above the
\* threshold 0.75, and (0.9, false, 0.4) gives 0.53, below it.
C9_ConfidenceIsClampedLinear ==
    last.op = "calculateConfidence" =>
        LET s == last.args[1]
            p == last.args[2]
            c == last.args[3]
            r == TheVal(last.confidence)
        IN  /\ IsClampedLinear(r, s, p, c)
            /\ (s = <<9, 10>> /\ c = <<2, 5>> /\ p)
                  => (r = <<83, 100>> /\ RLeq(CONFIDENCE_THRESHOLD, r))
            /\ (s = <<9, 10>> /\ c = <<2, 5>> /\ ~p)
                  => (r = <<53, 100>> /\ RLess(r, CONFIDENCE_THRESHOLD))

\* calculateConfidence(0.9, true, 0.4) has returned
C9_Witness ==
    /\ last.op = "calculateConfidence"
    /\ last.args = <<Rat(9, 10), TRUE, Rat(4, 10)>>
    /\ last.confidence = Some(Rat(83, 100))

\* C10: the confidence does not decrease when one of the semantic similarity,
\* the project match (false to true) and the command similarity increases and
\* the other two stay, and it is never greater than 1.
C10_ConfidenceMonotoneAndBounded ==
    last.op = "calculateConfidence" =>
        LET s == last.args[1]
            p == last.args[2]
            c == last.args[3]
            r == TheVal(last.confidence)
        IN  /\ RLeq(r, ROne)
            /\ \A s2 \in Similarities : RLeq(s, s2) => RLeq(r, calculateConfidence(s2, p, c))
            /\ \A c2 \in CommandSimilarities :
                   RLeq(c, c2) => RLeq(r, calculateConfidence(s, p, c2))
            /\ RLeq(calculateConfidence(s, FALSE, c), calculateConfidence(s, TRUE, c))

\* A call whose weighted sum exceeds 1 has returned 1
C10_Witness ==
    /\ last.op = "calculateConfidence"
    /\ LinearNum(last.args[1], last.args[2], last.args[3])
          > LinearDen(last.args[1], last.args[3])
    /\ last.confidence = Some(ROne)

\* ------------------------------------------- events handled as they happen
\* One terminal session: each command is captured when it ends and handled
\* (handleTerminalEvent) before the next one, so events are processed in
\* timestamp order.
OrderedOutcomes == {<<0, ErrNone>>, <<1, ErrEnoent>>, <<0, ErrColon>>}

NextOrdered ==
    \/ Tick
    \/ \E cwd \in Dirs : \E o \in OrderedOutcomes :
         HandleTerminalEvent(cwd, CmdLs, o[1], o[2], None, None) /\ Fits(db')

SpecOrdered == Init /\ [][NextOrdered]_vars

\* The stored event f is a successful command that follows the stored error e
\* in the same directory within 5 minutes
FixFollows(e, f) ==
    /\ IsErrorEvent(e.stderr, e.exit_code)
    /\ ~IsErrorEvent(f.stderr, f.exit_code)
    /\ f.cwd = e.cwd
    /\ e.timestamp < f.timestamp
    /\ f.timestamp <= e.timestamp + FIVE_MINUTES

\* C4, as claimed: when events are handled one at a time in timestamp order,
\* an error event followed within 5 minutes by a successful command in the
\* same directory has an episode in the store once the following event has
\* been processed.
C4_ErrorThenFixHasEpisode ==
    \A i, j \in 1..Len(db.raw_events) :
        FixFollows(db.raw_events[i], db.raw_events[j])
            => EpisodesFor(db, db.raw_events[i]) # {}

\* ------------------------------------------------ the fix of a new episode
\* extractEpisode called on an empty store with every window of up to
\* MaxFixWindow events, successful or not, one of them with an empty command
FixFollowUps(errorEvent) ==
    {TerminalEvent(now, errorEvent.cwd, CmdLs, x, ErrNone) : x \in ExitCodes}
    \cup {TerminalEvent(now, errorEvent.cwd, c, 0, ErrNone) : c \in {CmdMake, CmdEmpty}}

FixError == TerminalEvent(now, "/srv/app", CmdLs, 1, ErrEnoent)

NextFix ==
    /\ db.episodes = <<>>
    /\ \E w \in SeqsUpTo(FixFollowUps(FixError), MaxFixWindow) :
         ExtractEpisodeCall(FixError, w, None)

SpecFix == Init /\ [][NextFix]_vars

\* The commands of the successful events of window, in order
SuccessfulCommands(window) ==
    LET ok == SelectSeq(window, LAMBDA e : e.exit_code = 0)
    IN  Tup([i \in 1..Len(ok) |-> ok[i].command])

\* C5, as claimed: for a new signature and a non-empty window, extractEpisode
\* stores an episode whose fix sequence is the commands of the successful
\* window events, in window order, the first 5 of them, joined with " && ",
\* and is "Unknown fix" if no window event succeeded.
C5_FixIsSuccessfulCommands ==
    (last.op = "extractEpisode" /\ last.window # <<>>) =>
        /\ IsSome(last.returned)
        /\ \E i \in 1..Len(db.episodes) :
             /\ db.episodes[i].id = TheVal(last.returned).id
             /\ db.episodes[i].fix_sequence =
                  IF SuccessfulCommands(last.window) = <<>> THEN UnknownFix
                  ELSE Join(Slice0(SuccessfulCommands(last.window), 5), SepAnd)

\* ---------------------------------------------------------------- retrieval
\* A store built by extractEpisode with and without embeddings, then queried
RetrievalErrors ==
    {TerminalEvent(now, cwd, CmdLs, o[1], o[2]) : cwd \in Dirs, o \in ErrorOutcomes}

\* The fix observed after each of them
RetrievalFix(errorEvent) == <<TerminalEvent(now, errorEvent.cwd, CmdLs, 0, ErrNone)>>

Contexts ==
    {ContextOf(TerminalEvent(now, cwd, CmdLs, o[1], o[2])) : cwd \in Dirs, o \in Outcomes}

\* What the provider answers for the text of a context
QueryEmbeddings == {None, Some(<<Rat(3, 1), Rat(4, 1)>>)}

NextRetrieval ==
    \/ \E e \in RetrievalErrors : \E emb \in EmbeddingOutcomes :
         ExtractEpisodeCall(e, RetrievalFix(e), emb) /\ Fits(db')
    \/ \E c \in Contexts : \E n \in 1..MaxResults : \E emb \in QueryEmbeddings :
         RetrieveSimilarCall(c, n, emb)
    \/ \E c \in Contexts : \E emb \in QueryEmbeddings : RetrieveAndSuggestCall(c, emb)

SpecRetrieval == Init /\ [][NextRetrieval]_vars

\* The confidence of the stored row against the context and the embedding
\* of the last call
ConfidenceOfRow(row) ==
    ScoreEpisode(rowToEpisode(row), TheVal(last.context),
                 hashProjectPath(TheVal(last.context).cwd), last.embedding).confidence

\* The stored rows of the project of the last call's context
ProjectRows ==
    {i \in 1..Len(db.episodes) :
        db.episodes[i].project_hash = hashProjectPath(TheVal(last.context).cwd)}

\* The stored rows among them that reach the threshold 0.75
PassingRows == {i \in ProjectRows : RLeq(<<3, 4>>, ConfidenceOfRow(db.episodes[i]))}

\* C7: retrieveAndSuggest shows a suggestion only when some stored episode of
\* the current project has confidence >= 0.75 against the context; without a
\* trigger, without episodes in the project, or with every candidate below
\* the threshold, it returns shouldShow = false with message and
\* suggestedCommand null.
C7_SuggestionOnlyAboveThreshold ==
    last.op = "retrieveAndSuggest" =>
        LET triggered == TheVal(last.context).exit_code # 0
                         \/ isError(TheVal(last.context).stderr, 0)
        IN  /\ last.suggestion.shouldShow => PassingRows # {}
            /\ (~triggered \/ PassingRows = {}) => ~last.suggestion.shouldShow
            /\ ~last.suggestion.shouldShow =>
                 (last.suggestion.message = None /\ last.suggestion.suggestedCommand = None)

\* retrieveAndSuggest stayed silent for an error in a project whose episodes
\* are all below the threshold
C7_Witness ==
    /\ last.op = "retrieveAndSuggest"
    /\ TheVal(last.context).exit_code # 0
    /\ ProjectRows # {}
    /\ PassingRows = {}
    /\ last.suggestion = NoSuggestion

ConcErrors == {TerminalEvent(now, cwd, CmdLs, 1, ErrEnoent) : cwd \in Dirs}

NextConc ==
    \/ \E e \in ConcErrors : \E w \in {<<>>, RetrievalFix(e)} :
         ExtractEpisodeStart(e, w) /\ Fits(db')
    \/ \E k \in DOMAIN calls : \E emb \in {None, Some(<<Rat(6, 10), Rat(8, 10)>>)} :
         ExtractEpisodeResume(k, emb) /\ Fits(db')

SpecConc == Init /\ [][NextConc]_vars

\* C2, as claimed: when two invocations of extractEpisode for a first
\* occurrence of the same project identity and signature overlap, the store
\* ends, once both have returned, with at most one episode for that pair.
C2_OverlappingExtractionsInsertOnce ==
    calls = <<>> =>
        \A e \in ConcErrors : Cardinality(EpisodesFor(db, e)) <= 1

\* ------------------------------------- retrieval over the cosine's range
\* Query vectors against the stored ones: the same direction, the opposite
\* direction (cosine -1), and no vector
RangeEmbeddings ==
    {None, Some(<<Rat(3, 1), Rat(4, 1)>>), Some(<<Rat(-3, 1), Rat(-4, 1)>>)}

NextRange ==
    \/ \E e \in RetrievalErrors : \E emb \in EmbeddingOutcomes :
         ExtractEpisodeCall(e, RetrievalFix(e), emb) /\ Fits(db')
    \/ \E c \in Contexts : \E emb \in RangeEmbeddings :
         RetrieveSimilarCall(c, MaxResults, emb)

SpecRange == Init /\ [][NextRange]_vars

\* C11: every result retrieveSimilarEpisodes returns has a confidence in
\* [0, 1], whatever the similarity of its candidate, the cosine's negative
\* values included.
C11_ResultConfidenceInUnitInterval ==
    last.op = "retrieveSimilarEpisodes" =>
        \A k \in 1..Len(last.results) :
            /\ RLeq(RZero, last.results[k].confidence)
            /\ RLeq(last.results[k].confidence, ROne)

\* A retrieval returned a result while another candidate of the project,
\* opposite to the query vector, scores below 0
C11_Witness ==
    /\ last.op = "retrieveSimilarEpisodes"
    /\ last.results # <<>>
    /\ \E i \in ProjectRows : RLess(ConfidenceOfRow(db.episodes[i]), RZero)

\* ------------------------------------------- a provider without an answer
\* C12: when the provider gives no vector, extractEpisode still inserts the
\* episode of a new signature and returns it, stored as returned (without a
\* vector when none was given); and retrieveSimilarEpisodes gives a result
\* whose episode, or whose query, has no vector the textual similarity of
\* `${problem_summary} ${keywords}` and `${stderr} ${command}`.
C12_NoVectorIsNotAnError ==
    [][/\ (/\ last'.op = "extractEpisode"
           /\ ExtractedError(last')
           /\ last'.window # <<>>
           /\ EpisodesFor(db, TheVal(last'.event)) = {})
          => /\ IsSome(last'.returned)
             /\ Len(db'.episodes) = Len(db.episodes) + 1
             /\ \E i \in 1..Len(db'.episodes) :
                  /\ db'.episodes[i].id = TheVal(last'.returned).id
                  /\ db'.episodes[i].problem_summary = TheVal(last'.returned).problem_summary
                  /\ db'.episodes[i].embedding = ToBlob(TheVal(last'.returned).embedding)
       /\ last'.op = "retrieveSimilarEpisodes"
          => \A k \in 1..Len(last'.results) :
               (last'.embedding = None \/ last'.results[k].episode.embedding = None)
               => last'.results[k].similarity =
                    textSimilarity(last'.results[k].episode.problem_summary \o SepSpace
                                     \o last'.results[k].episode.keywords,
                                   TheVal(last'.context).stderr \o SepSpace
                                     \o TheVal(last'.context).command)]_vars

\* A query that has its vector was answered with an episode stored without
\* one, beside an episode of the project that has one
C12_Witness ==
    /\ last.op = "retrieveSimilarEpisodes"
    /\ IsSome(last.embedding)
    /\ \E k \in 1..Len(last.results) : last.results[k].episode.embedding = None
    /\ \E i \in ProjectRows : db.episodes[i].embedding # None

\* ------------------------------------------- the similarity engine alone
\* Texts without a token (empty, whitespace only) and texts with tokens
SimilarityTexts ==
    { <<>>, <<" ">>, <<" ", "\t">>, <<"a">>, <<"A">>, <<" ", "a">>, <<"a", " ", "b">> }

\* Vectors without components, of zero magnitude, of other lengths, parallel,
\* opposite and oblique
SimilarityVectors ==
    { <<>>, <<RZero>>, <<RZero, RZero>>,
      <<Rat(3, 1), Rat(4, 1)>>, <<Rat(-3, 1), Rat(-4, 1)>>, <<Rat(4, 1), Rat(3, 1)>>,
      <<Rat(6, 10), Rat(8, 10)>>, <<Rat(3, 1), Rat(4, 1), RZero>> }

NextSimilarity ==
    \/ \E t1, t2 \in SimilarityTexts : TextSimilarityCall(t1, t2)
    \/ \E a, b \in SimilarityVectors : CosineSimilarityCall(a, b)

SpecSimilarity == Init /\ [][NextSimilarity]_vars

\* The text has no token: it is empty or whitespace only
NoToken(text) == \A i \in 1..Len(text) : IsWhitespace(text[i])

\* C18, as claimed: textSimilarity of two texts without tokens, the empty
\* string included, is 0.
C18_NoTokensGiveZero ==
    (/\ last.op = "textSimilarity"
     /\ NoToken(last.args[1])
     /\ NoToken(last.args[2]))
    => last.similarity = Some(RZero)

\* The vector has zero magnitude
ZeroMagnitude(v) == \A i \in 1..Len(v) : v[i] = RZero

\* C19: cosineSimilarity(a, b) is 0 when a and b differ in length and when
\* either has zero magnitude.
C19_NoSignalIsZero ==
    (/\ last.op = "cosineSimilarity"
     /\ \/ Len(last.args[1]) # Len(last.args[2])
        \/ ZeroMagnitude(last.args[1])
        \/ ZeroMagnitude(last.args[2]))
    => last.similarity = Some(RZero)

\* A vector of magnitude 5 was compared with the zero vector of its length
C19_Witness ==
    /\ last.op = "cosineSimilarity"
    /\ last.args = << <<Rat(3, 1), Rat(4, 1)>>, <<RZero, RZero>> >>
    /\ last.similarity = Some(RZero)

\* ------------------------------------------------- the retrieval trigger
\* shouldRetrieve(context)
ShouldRetrieveCall(context) ==
    /\ last' = [Idle EXCEPT !.op = "shouldRetrieve", !.context = Some(context),
                            !.returned = Some(shouldRetrieve(context))]
    /\ UNCHANGED <<db, file, now, calls>>

\* The stderr texts given to the trigger: markers in either case, inside
\* other words, and texts without a marker
TriggerStderrs ==
    { <<>>, <<"o", "k">>, <<"w", "a", "r", "n">>, <<"d", "o", "n", "e">>,
      <<"d", "o", "n", "e", " ", "o", "k">>, <<"e", "n", "o", "e", "n", "t">>,
      <<"F", "a", "t", "a", "l">>, <<"x", "F", "A", "I", "L", "x">>,
      <<"e", "r", "r", "_">>, <<"E", "R", "R">>, ErrEnoent, ErrColon }
TriggerExitCodes == {0, 1, 127}
TriggerContexts ==
    {ContextOf(TerminalEvent(now, "/srv/app", CmdLs, x, t)) :
        x \in TriggerExitCodes, t \in TriggerStderrs}

NextTrigger ==
    \/ \E c \in TriggerContexts : ShouldRetrieveCall(c)
    \/ \E e \in RetrievalErrors :
         /\ e.cwd = "/srv/app"
         /\ ExtractEpisodeCall(e, RetrievalFix(e), Some(<<Rat(3, 1), Rat(4, 1)>>))
         /\ Fits(db')
    \/ \E c \in Contexts : \E emb \in QueryEmbeddings : RetrieveAndSuggestCall(c, emb)

SpecTrigger == Init /\ [][NextTrigger]_vars

\* Whether marker p is in text s from index i on, letters compared without
\* their case
MarkerAt(s, i, p) ==
    /\ i + Len(p) - 1 <= Len(s)
    /\ \A j \in 1..Len(p) : ToLowerChar(s[i + j - 1]) = ToLowerChar(p[j])
HasMarker(s) ==
    \E k \in 1..Len(ERROR_PATTERNS) : \E i \in 1..Len(s) : MarkerAt(s, i, ERROR_PATTERNS[k])
Triggering(c) == c.exit_code # 0 \/ HasMarker(c.stderr)

NextKeep ==
    \/ \E cwd \in Dirs : \E o \in Outcomes : \E emb \in QueryEmbeddings :
         HandleTerminalEvent(cwd, CmdLs, o[1], o[2], None, emb) /\ Fits(db')
    \/ \E e \in RetrievalErrors :
         ExtractEpisodeCall(e, RetrievalFix(e), Some(<<Rat(3, 1), Rat(4, 1)>>)) /\ Fits(db')
    \/ \E c \in Contexts : \E emb \in QueryEmbeddings :
         RetrieveSimilarCall(c, MaxResults, emb)
    \/ \E p \in Dirs : ClearProjectCall(p)

SpecKeep == Init /\ [][NextKeep]_vars

\* The episodes of d as (id, project identity) pairs
EpisodeIds(d) ==
    {<<d.episodes[i].id, d.episodes[i].project_hash>> : i \in 1..Len(d.episodes)}

\* C15: a step that is not clearProject keeps every episode of the store, and
\* clearProject(P) leaves exactly the rows whose project identity is not P,
\* each unchanged.
C15_OnlyClearRemovesEpisodes ==
    [][IF last'.op = "clearProject"
       THEN \A r \in Range(db.episodes) \cup Range(db'.episodes) :
                r \in Range(db'.episodes) <=>
                    /\ r \in Range(db.episodes)
                    /\ r.project_hash # hashProjectPath(last'.args[1])
       ELSE EpisodeIds(db) \subseteq EpisodeIds(db')]_vars

\* clearProject has just run for a project whose episode is gone (the raw
\* event of its error still names it) while an episode of the other project
\* is still in the store
C15_Witness ==
    /\ last.op = "clearProject"
    /\ db.episodes # <<>>
    /\ \E k \in 1..Len(db.raw_events) :
           /\ db.raw_events[k].cwd = last.args[1]
           /\ IsSome(db.raw_events[k].episode_id)
           /\ \A i \in 1..Len(db.episodes) :
                  Some(db.episodes[i].id) # db.raw_events[k].episode_id

\* ------------------------------------------------------------- startup
\* initDb in a process that starts: the database is read from the file;
\* when the file cannot be read or is not a database, the catch branch opens
\* an empty one, and initSchema creates its tables
InitDbCall(readable) ==
    /\ db' = IF readable THEN file ELSE EmptyDb
    /\ calls' = <<>>
    /\ last' = [Idle EXCEPT !.op = "initDb", !.args = <<readable>>]
    /\ UNCHANGED <<file, now>>

NextStartup ==
    \/ \E readable \in BOOLEAN : InitDbCall(readable)
    \/ \E e \in Events : ProcessEventCall(e, None) /\ Fits(db')
    \/ \E e \in RetrievalErrors : ExtractEpisodeCall(e, RetrievalFix(e), None) /\ Fits(db')

SpecStartup == Init /\ [][NextStartup]_vars

\* C14: the store file never loses an episode or an event it held, also
\* after a startup that could not read it: the core does not go on with an
\* empty store that the next save writes over the file.
C14_UnreadableStoreIsNotOverwritten ==
    [][/\ EpisodeIds(file) \subseteq EpisodeIds(file')
       /\ Len(file.raw_events) <= Len(file'.raw_events)]_vars

\* ------------------------------------- handleTerminalEvent, step by step
\* processEvent without its `if (!isError(...)) return null`
processEventBeginUnclassified(d, clock, event) ==
    LET Begun(followingEvents, begun) ==
            [db |-> begun.db, pending |-> begun.pending, following |-> followingEvents]
        Begin(stored, followingEvents) ==
            Begun(followingEvents,
                  extractEpisodeBegin(stored, clock, event, followingEvents))
        Recorded(stored) == Begin(stored, FollowingEvents(stored, clock, event))
    IN  Recorded(insertRawEvent(d, RawEventOf(event, None)))

\* processEvent up to the await of extractEpisode: the raw event stored, and
\* for an error the window read and extractEpisode begun
processEventBegin(d, clock, event) ==
    LET Begun(followingEvents, begun) ==
            [db |-> begun.db, pending |-> begun.pending, following |-> followingEvents]
        Begin(stored, followingEvents) ==
            Begun(followingEvents,
                  extractEpisodeBegin(stored, clock, event, followingEvents))
        Recorded(stored) ==
            IF ~IsErrorEvent(event.stderr, event.exit_code)
            THEN [db |-> stored, pending |-> None, following |-> <<>>]
            ELSE Begin(stored, FollowingEvents(stored, clock, event))
    IN  Recorded(insertRawEvent(d, RawEventOf(event, None)))

\* Whether retrieveAndSuggest(context) reaches `await generateEmbedding`: the
\* trigger fires and the project has episodes
AwaitsQueryEmbedding(d, context) ==
    /\ ShouldRetrieveFor(context)
    /\ Len(getEpisodesByProject(d, hashProjectPath(context.cwd))) # 0

\* What handleTerminalEvent returns, with the store its extraction left and
\* the store its retrieval read
Returned(call, store, embedding) ==
    [Idle EXCEPT !.op = "handleTerminalEvent.return", !.event = Some(call.event),
                 !.window = call.window, !.returned = call.returned,
                 !.context = Some(ContextOf(call.event)), !.embedding = embedding,
                 !.args = <<call.left, Some(store)>>,
                 !.suggestion = retrieveAndSuggest(store, ContextOf(call.event), embedding)]

\* handleTerminalEvent up to the return of `await captureEvent`
HandleCapture(cwd, command, exitCode, stderr) ==
    \E event \in {TerminalEvent(now, cwd, command, exitCode, Substring0(stderr, 5000))} :
        /\ Len(calls) < MaxCalls
        /\ calls' = Append(calls, [stage |-> "captured", event |-> event,
                                   pending |-> None, window |-> <<>>, returned |-> None,
                                   left |-> None, snapshot |-> None])
        /\ last' = [Idle EXCEPT !.op = "captureEvent", !.event = Some(event)]
        /\ UNCHANGED <<db, file, now>>

\* retrieveAndSuggest begun before processEvent was called
HandleRetrieveEarly(k) ==
    \E call \in {calls[k]} :
        /\ call.stage \in {"captured", "extracted"}
        /\ calls' = SubSeq(calls, 1, k - 1) \o SubSeq(calls, k + 1, Len(calls))
        /\ last' = Returned(call, db, None)
        /\ UNCHANGED <<db, file, now>>

\* `await processEvent(event)` up to the await of extractEpisode, or to its
\* return when extractEpisode does not reach it
HandleProcess(k) ==
    \E call \in {c \in {calls[k]} : c.stage = "captured"} :
    \E begun \in {processEventBegin(db, now, call.event)} :
        /\ db' = begun.db
        /\ file' = Saved(begun.db)
        /\ calls' = [calls EXCEPT ![k] =
                        IF IsSome(begun.pending)
                        THEN [call EXCEPT !.stage = "embedding", !.pending = begun.pending,
                                          !.window = begun.following]
                        ELSE [call EXCEPT !.stage = "extracted",
                                          !.window = begun.following,
                                          !.left = Some(begun.db)]]
        /\ last' = [Idle EXCEPT !.op = "processEvent.start", !.event = Some(call.event),
                                !.window = begun.following]
        /\ UNCHANGED now

\* The provider answers generateEpisodeEmbedding: extractEpisode inserts the
\* episode and its raw events, and processEvent returns
HandleInsert(k, embedding) ==
    \E call \in {c \in {calls[k]} : c.stage = "embedding"} :
    \E done \in {extractEpisodeEnd(db, TheVal(call.pending), embedding,
                                   <<call.event>> \o call.window)} :
        /\ db' = done.db
        /\ file' = Saved(done.db)
        /\ calls' = [calls EXCEPT ![k] = [call EXCEPT !.stage = "extracted",
                                                      !.pending = None,
                                                      !.returned = done.returned,
                                                      !.left = Some(done.db)]]
        /\ last' = [Idle EXCEPT !.op = "processEvent", !.event = Some(call.event),
                                !.window = call.window, !.returned = done.returned,
                                !.embedding = embedding]
        /\ UNCHANGED now

\* `await retrieveAndSuggest(context)` up to `await generateEmbedding` with the
\* project's episodes read, or to its return when it does not reach the await
HandleRetrieve(k) ==
    \E call \in {calls[k]} :
        /\ call.stage = "extracted"
        /\ IF AwaitsQueryEmbedding(db, ContextOf(call.event))
           THEN /\ calls' = [calls EXCEPT ![k] = [call EXCEPT !.stage = "query",
                                                              !.snapshot = Some(db)]]
                /\ last' = [Idle EXCEPT !.op = "retrieveAndSuggest.start",
                                        !.event = Some(call.event)]
           ELSE /\ calls' = SubSeq(calls, 1, k - 1) \o SubSeq(calls, k + 1, Len(calls))
                /\ last' = Returned(call, db, None)
        /\ UNCHANGED <<db, file, now>>

\* The provider answers generateEmbedding: the episodes read before the await
\* are scored and handleTerminalEvent returns
HandleAnswer(k, embedding) ==
    \E call \in {calls[k]} :
        /\ call.stage = "query"
        /\ calls' = SubSeq(calls, 1, k - 1) \o SubSeq(calls, k + 1, Len(calls))
        /\ last' = Returned(call, TheVal(call.snapshot), embedding)
        /\ UNCHANGED <<db, file, now>>

\* No invocation is between the return of processEvent and the call of
\* retrieveAndSuggest, which no timer or network event separates
NoneExtracted == \A k \in DOMAIN calls : calls[k].stage # "extracted"

\* One handleTerminalEvent at a time; while it waits, the clock advances and
\* another caller of extractEpisode stores episodes and events
NextHandle ==
    \/ \E o \in Outcomes :
         /\ calls = <<>>
         /\ Fits(db)
         /\ Len(db.raw_events) < MaxRawEvents
         /\ HandleCapture("/srv/app", CmdLs, o[1], o[2])
    \/ \E k \in DOMAIN calls : HandleProcess(k)
    \/ \E k \in DOMAIN calls : \E emb \in QueryEmbeddings : HandleInsert(k, emb)
    \/ \E k \in DOMAIN calls : HandleRetrieve(k)
    \/ \E k \in DOMAIN calls : \E emb \in QueryEmbeddings : HandleAnswer(k, emb)
    \/ NoneExtracted /\ Tick
    \/ \E e \in RetrievalErrors :
         /\ NoneExtracted
         /\ e.cwd = "/srv/app"
         /\ ExtractEpisodeCall(e, RetrievalFix(e), Some(<<Rat(3, 1), Rat(4, 1)>>))
         /\ Fits(db')

SpecHandle == Init /\ [][NextHandle]_vars

\* C20: when handleTerminalEvent returns, the store its retrieval read is the
\* store its extraction left: it holds the raw event of this event, and the
\* suggestion is the one retrieveAndSuggest draws from it.
C20_RetrievalReadsWhatExtractionLeft ==
    last.op = "handleTerminalEvent.return" =>
        /\ IsSome(last.args[1])
        /\ last.args[2] = last.args[1]
        /\ \A event \in last.event : \A store \in last.args[2] :
               /\ \E i \in 1..Len(store.raw_events) :
                      /\ store.raw_events[i].timestamp = event.timestamp
                      /\ store.raw_events[i].command = event.command
                      /\ store.raw_events[i].exit_code = event.exit_code
               /\ last.suggestion =
                      retrieveAndSuggest(store, ContextOf(event), last.embedding)

\* handleTerminalEvent returned for an error whose window was not empty and
\* whose episode existed: its extraction raised the occurrence_count, and the
\* suggestion shown comes from that episode, seen twice
C20_Witness ==
    /\ last.op = "handleTerminalEvent.return"
    /\ last.window # <<>>
    /\ last.returned = None
    /\ last.suggestion.shouldShow
    /\ \A event \in last.event : \A store \in last.args[2] :
           /\ IsErrorEvent(event.stderr, event.exit_code)
           /\ \E i \in EpisodesFor(store, event) :
                  /\ store.episodes[i].occurrence_count = 2
                  /\ store.episodes[i].last_seen > event.timestamp

\* ------------------------------------------------- a provider that is slow
\* An invocation whose next step waits for nothing but the event loop: its
\* awaited promise is resolved
Ready == \E k \in DOMAIN calls : calls[k].stage \in {"captured", "extracted"}

\* Time passes; nothing makes the provider answer
SpecLive ==
    /\ Init
    /\ [][NextHandle]_vars
    /\ WF_vars(NoneExtracted /\ Tick)

\* C13: a handleTerminalEvent that has begun returns, whether or not the
\* provider answers its embedding requests, as long as the event loop runs
\* every continuation that is ready.
C13_HandlingCompletes ==
    []<>(~Ready) => ((calls # <<>>) ~> (calls = <<>>))

\* ------------------------------------------------------ free-text search
\* s LIKE pattern in SQLite: % is any run of characters, _ any one character,
\* and ASCII letters match without their case
Like(s, pattern) ==
    LET Matches[i \in 1..(Len(s) + 1), j \in 1..(Len(pattern) + 1)] ==
            IF j > Len(pattern) THEN i > Len(s)
            ELSE IF pattern[j] = "%"
                 THEN Matches[i, j + 1] \/ (i <= Len(s) /\ Matches[i + 1, j])
                 ELSE /\ i <= Len(s)
                      /\ pattern[j] = "_" \/ ToLowerChar(s[i]) = ToLowerChar(pattern[j])
                      /\ Matches[i + 1, j + 1]
    IN  Matches[1, 1]

\* SELECT * FROM episodes WHERE problem_summary LIKE ? OR keywords LIKE ?
\*   ORDER BY last_seen DESC LIMIT ?
searchEpisodesByText(d, text, limit) ==
    LET Limited(sorted) ==
            Tup([i \in 1..Len(Slice0(sorted, limit)) |-> rowToEpisode(sorted[i])])
        Ordered(rows) ==
            Limited(StableSort(rows, [i \in 1..Len(rows) |-> [j \in 1..Len(rows) |->
                                        rows[i].last_seen > rows[j].last_seen]]))
        Matching(pattern) ==
            Ordered(SelectSeq(d.episodes,
                              LAMBDA r : Like(r.problem_summary, pattern)
                                         \/ Like(r.keywords, pattern)))
    IN  Matching(<<"%">> \o text \o <<"%">>)

\* SELECT * FROM episodes WHERE embedding IS NOT NULL ORDER BY last_seen DESC
getAllEpisodesWithEmbeddings(d) ==
    LET Ordered(rows) ==
            StableSort(rows, [i \in 1..Len(rows) |-> [j \in 1..Len(rows) |->
                                rows[i].last_seen > rows[j].last_seen]])
        Read(sorted) == Tup([i \in 1..Len(sorted) |-> rowToEpisode(sorted[i])])
    IN  Read(Ordered(SelectSeq(d.episodes, LAMBDA r : IsSome(r.embedding))))

\* searchMemory(query, maxResults), queryEmbedding being what generateEmbedding
\* answers for the query
searchMemory(d, query, maxResults, queryEmbedding) ==
    LET Similarity(episode) ==
            IF IsSome(episode.embedding)
            THEN cosineSimilarity(TheVal(queryEmbedding), TheVal(episode.embedding))
            ELSE RZero
        \* scored.sort((a, b) => b.similarity - a.similarity).slice(0, maxResults)
        Ranked(scored) ==
            Slice0(StableSort(scored, [i \in 1..Len(scored) |-> [j \in 1..Len(scored) |->
                                 RLess(Similarity(scored[j]), Similarity(scored[i]))]]),
                   maxResults)
        Fallback(episodes) ==
            IF Len(episodes) = 0 /\ IsSome(queryEmbedding)
            THEN Ranked(getAllEpisodesWithEmbeddings(d))
            ELSE episodes
    IN  Fallback(searchEpisodesByText(d, query, maxResults))

\* searchMemory(query, maxResults)
SearchMemoryCall(query, maxResults, queryEmbedding) ==
    /\ last' = [Idle EXCEPT !.op = "searchMemory", !.args = <<query>>,
                            !.maxResults = maxResults, !.embedding = queryEmbedding,
                            !.results = searchMemory(db, query, maxResults, queryEmbedding)]
    /\ UNCHANGED <<db, file, now, calls>>

\* The provider's vector for the text of an episode (unit vectors, as the
\* embedding models give), told by the episode's problem summary
EpisodeVector(problem_summary) ==
    IF problem_summary = SignatureOf(ErrEnoent, CmdLs)
    THEN <<Rat(6, 10), Rat(8, 10)>>
    ELSE <<Rat(8, 10), Rat(-6, 10)>>

\* Queries: a stored word in another case, a word no episode holds, the
\* wildcard of LIKE
Queries ==
    { <<"e", "n", "o", "e", "n", "t">>, <<"d", "i", "s", "k">>, <<"_", "s">> }
SearchEmbeddings ==
    {None, Some(<<Rat(6, 10), Rat(8, 10)>>), Some(<<Rat(8, 10), Rat(-6, 10)>>)}

NextSearch ==
    \/ Tick
    \/ \E e \in RetrievalErrors : \E known \in BOOLEAN :
         /\ e.cwd = "/srv/app"
         /\ ExtractEpisodeCall(e, RetrievalFix(e),
                IF known THEN Some(EpisodeVector(SignatureOf(e.stderr, e.command)))
                ELSE None)
         /\ Fits(db')
    \/ \E q \in Queries : \E n \in 1..MaxResults : \E emb \in SearchEmbeddings :
         SearchMemoryCall(q, n, emb)

SpecSearch == Init /\ [][NextSearch]_vars

\* The similarity of a stored episode to the query vector, by the vector the
\* provider gave for the episode
ProvidedSimilarity(queryEmbedding, episode) ==
    cosineSimilarity(TheVal(queryEmbedding), EpisodeVector(episode.problem_summary))

\* C17: searchMemory returns the substring match when it is not empty;
\* otherwise, given a query vector, it returns the episodes that have an
\* embedding, ordered by their similarity to the query, descending, the n most
\* similar ones and no more.
C17_SearchFallsBackToEmbeddings ==
    last.op = "searchMemory" =>
        LET Found(bytext, embedded) ==
                IF bytext # <<>> THEN last.results = bytext
                ELSE IF ~IsSome(last.embedding) THEN last.results = <<>>
                ELSE /\ Len(last.results) =
                            IF Len(embedded) < last.maxResults THEN Len(embedded)
                            ELSE last.maxResults
                     /\ \A k \in 1..Len(last.results) : \A i \in 1..Len(embedded) :
                            \/ \E m \in 1..k : last.results[m].id = embedded[i].id
                            \/ RLeq(ProvidedSimilarity(last.embedding, embedded[i]),
                                    ProvidedSimilarity(last.embedding, last.results[k]))
        IN  Found(searchEpisodesByText(db, last.args[1], last.maxResults),
                  getAllEpisodesWithEmbeddings(db))

\* ------------------------------------------------- the window of an error
\* Date.now() advancing past the 5 minutes of the window
LateTick ==
    /\ now < MaxLateTicks * TickMs
    /\ now' = now + TickMs
    /\ last' = Idle
    /\ UNCHANGED <<db, file, calls>>

\* Events handed to processEvent: a successful command captured now, or a
\* failure captured at any earlier time of the clock and delivered now
WindowEvents ==
    {TerminalEvent(now, cwd, CmdLs, 0, ErrNone) : cwd \in Dirs}
    \cup {TerminalEvent(k * TickMs, "/srv/app", CmdLs, 1, ErrEnoent) :
             k \in {t \in 0..MaxLateTicks : t * TickMs <= now}}

NextWindow ==
    \/ LateTick
    \/ \E e \in WindowEvents : ProcessEventCall(e, None) /\ Fits(db')

SpecWindow == Init /\ [][NextWindow]_vars

\* The stored events of d in the directory of event, later than it and at most
\* 5 minutes after it
InWindow(d, event) ==
    {i \in 1..Len(d.raw_events) :
        /\ d.raw_events[i].cwd = event.cwd
        /\ d.raw_events[i].timestamp > event.timestamp
        /\ d.raw_events[i].timestamp <= event.timestamp + FIVE_MINUTES}

\* C21: the following events processEvent reads for an error are the stored
\* events of its directory later than the error and at most 5 minutes after
\* it, each once, in ascending order of their timestamps.
C21_WindowIsFiveMinutesAfterError ==
    [][last'.op = "processEvent" =>
          \A event \in last'.event :
              IsErrorEvent(event.stderr, event.exit_code) =>
                  /\ {last'.window[k].id : k \in 1..Len(last'.window)}
                         = {db.raw_events[i].id : i \in InWindow(db, event)}
                  /\ Len(last'.window) = Cardinality(InWindow(db, event))
                  /\ \A k \in 1..(Len(last'.window) - 1) :
                         last'.window[k].timestamp <= last'.window[k + 1].timestamp]_vars

\* ------------------------------------------------------------ recurrences
\* One extractEpisode at a time, suspended at its await for a first
\* occurrence, over a clock that advances
NextRecurrence ==
    \/ Tick
    \/ \E e \in RetrievalErrors :
         /\ calls = <<>>
         /\ ExtractEpisodeStart(e, RetrievalFix(e))
         /\ Fits(db')
    \/ \E k \in DOMAIN calls : \E emb \in EmbeddingOutcomes :
         ExtractEpisodeResume(k, emb) /\ Fits(db')

SpecRecurrence == Init /\ [][NextRecurrence]_vars

\* C22: when extractEpisode, given a window, finds an episode of the event's
\* project identity and signature, it returns null without awaiting an
\* embedding, adds no raw event, and changes one of those episodes in its
\* last_seen (now) and its occurrence_count (one more) and in nothing else;
\* every other episode is as it was.
C22_RecurrenceOnlyCounts ==
    [][last'.op = "extractEpisode.start" =>
          \A event \in last'.event :
              (last'.window # <<>> /\ EpisodesFor(db, event) # {}) =>
                  /\ calls' = calls
                  /\ last'.returned = None
                  /\ db'.raw_events = db.raw_events
                  /\ db'.sqlite_sequence = db.sqlite_sequence
                  /\ \E i \in EpisodesFor(db, event) :
                         db'.episodes =
                             [db.episodes EXCEPT
                                 ![i].last_seen = now,
                                 ![i].occurrence_count = @ + 1]]_vars

\* A recurrence has just been counted on an episode that holds an embedding
\* and was first seen earlier, while another episode is in the store
C22_Witness ==
    /\ last.op = "extractEpisode.start"
    /\ last.window # <<>>
    /\ calls = <<>>
    /\ Len(db.episodes) >= 2
    /\ \A event \in last.event : \E i \in EpisodesFor(db, event) :
           /\ db.episodes[i].occurrence_count = 2
           /\ db.episodes[i].last_seen = now
           /\ db.episodes[i].first_seen < now
           /\ IsSome(db.episodes[i].embedding)

\* ------------------------------------------------------- a new episode
\* extractEpisode called for an error captured now or one tick ago, with the
\* events that followed it in its directory
CreateErrors ==
    {TerminalEvent(t, "/srv/app", CmdLs, o[1], o[2]) :
        t \in {now, now - TickMs} \cap Times, o \in ErrorOutcomes}

\* What followed: a success, or a failure without error text
CreateFollowUps == {TerminalEvent(now, "/srv/app", CmdLs, x, ErrNone) : x \in {0, 1}}

NextCreate ==
    \/ Tick
    \/ \E e \in CreateErrors : \E w \in SeqsUpTo(CreateFollowUps, MaxRawEvents - 1) :
         ExtractEpisodeCall(e, w, None) /\ Fits(db')

SpecCreate == Init /\ [][NextCreate]_vars

\* The raw events of d linked to episode id, in the order of their insertion
LinkedTo(d, id) == SelectSeq(d.raw_events, LAMBDA r : r.episode_id = Some(id))

\* C23: after extractEpisode returned a new episode for a window of n events,
\* the store holds that episode with occurrence_count 1 and first_seen the
\* timestamp of the error, and exactly n + 1 raw events linked to its id: the
\* error, then each event of the window.
C23_NewEpisodeLinksItsWindow ==
    last.op = "extractEpisode" =>
        \A event \in last.event : \A episode \in last.returned :
            /\ \E i \in 1..Len(db.episodes) :
                   /\ db.episodes[i].id = episode.id
                   /\ db.episodes[i].occurrence_count = 1
                   /\ db.episodes[i].first_seen = event.timestamp
            /\ Len(LinkedTo(db, episode.id)) = Len(last.window) + 1
            /\ \A k \in 1..Len(LinkedTo(db, episode.id)) :
                   RawEventOf((<<event>> \o last.window)[k], Some(episode.id))
                       = [f \in DOMAIN LinkedTo(db, episode.id)[k] \ {"id"} |->
                             LinkedTo(db, episode.id)[k][f]]

\* A new episode was returned for an error captured before now and a window
\* of three events
C23_Witness ==
    /\ last.op = "extractEpisode"
    /\ IsSome(last.returned)
    /\ Len(last.window) = 3
    /\ \A event \in last.event : event.timestamp < now

\* ------------------------------------------- errors of different texts
\* A second 'Error: <message>' line, of another message
ErrColonB == <<"E", "r", "r", "o", "r", ":", " ", "b">>
SignatureStderrs == {ErrEnoent, ErrColon, ErrColonB}

SignatureErrors ==
    {TerminalEvent(now, cwd, CmdLs, 1, t) : cwd \in Dirs, t \in SignatureStderrs}

NextSignature ==
    \/ Tick
    \/ \E e \in SignatureErrors : ExtractEpisodeCall(e, RetrievalFix(e), None) /\ Fits(db')

SpecSignature == Init /\ [][NextSignature]_vars

\* The error texts of the directory that have an episode in d: the stderr of
\* the raw events linked to an episode
LearnedTexts(d, cwd) ==
    {d.raw_events[k].stderr :
        k \in {j \in 1..Len(d.raw_events) :
                 /\ d.raw_events[j].cwd = cwd
                 /\ IsSome(d.raw_events[j].episode_id)
                 /\ d.raw_events[j].stderr # ErrNone}}

\* C24: an error whose text differs from the text of every error that has an
\* episode in its project is given an episode of its own: extractEpisode
\* returns a new episode instead of counting a recurrence.
C24_DifferentTextsGetDistinctEpisodes ==
    [][/\ last'.op = "extractEpisode"
       /\ last'.window # <<>>
       /\ \A event \in last'.event : event.stderr \notin LearnedTexts(db, event.cwd)
       => IsSome(last'.returned)]_vars

\* ------------------------------------------- events of an empty command
\* Events handed to processEvent: a success, or a failure captured now or one
\* tick ago, each of a command or of the empty command line
MalformedEvents ==
    {TerminalEvent(now, "/srv/app", c, 0, ErrNone) : c \in {CmdLs, CmdEmpty}}
    \cup {TerminalEvent(t, "/srv/app", c, 1, ErrEnoent) :
            t \in {now, now - TickMs} \cap Times, c \in {CmdLs, CmdEmpty}}

NextMalformed ==
    \/ Tick
    \/ \E e \in MalformedEvents : ProcessEventCall(e, None) /\ Fits(db')

SpecMalformed == Init /\ [][NextMalformed]_vars

\* C25: processing an event whose command is empty creates no episode and
\* updates none: the episodes are what they were, and null is returned.
C25_EmptyCommandIsSkippedForExtraction ==
    [][/\ last'.op = "processEvent"
       /\ \A event \in last'.event : event.command = CmdEmpty
       => /\ db'.episodes = db.episodes
          /\ ~IsSome(last'.returned)]_vars

\* ----------------------------------------------- an event that is no error
\* C26: when handleTerminalEvent processes an event that is not an error,
\* processEvent leaves the episodes as they were and appends one raw event,
\* that of the event, linked to no episode; and handleTerminalEvent returns
\* no episode and a suggestion that is not shown, the store untouched.
C26_NonErrorOnlyRecordsRawEvent ==
    [][\A event \in last'.event :
           ~IsErrorEvent(event.stderr, event.exit_code) =>
               /\ last'.op = "processEvent.start" =>
                      /\ db'.episodes = db.episodes
                      /\ db'.sqlite_sequence.episodes = db.sqlite_sequence.episodes
                      /\ Len(db'.raw_events) = Len(db.raw_events) + 1
                      /\ SubSeq(db'.raw_events, 1, Len(db.raw_events)) = db.raw_events
                      /\ \E r \in {db'.raw_events[Len(db'.raw_events)]} :
                             /\ r.episode_id = None
                             /\ [f \in DOMAIN r \ {"id"} |-> r[f]] = RawEventOf(event, None)
                      /\ \A k \in DOMAIN calls' : calls'[k].stage = "extracted"
               /\ last'.op = "handleTerminalEvent.return" =>
                      /\ db' = db
                      /\ last'.returned = None
                      /\ last'.suggestion =
                             [shouldShow |-> FALSE, message |-> None, suggestedCommand |-> None]]_vars

\* handleTerminalEvent returned for a successful command in a project that
\* has an episode
C26_Witness ==
    /\ last.op = "handleTerminalEvent.return"
    /\ \A event \in last.event :
           /\ ~IsErrorEvent(event.stderr, event.exit_code)
           /\ Len(getEpisodesByProject(db, event.project_hash)) # 0
           /\ \E i \in 1..Len(db.raw_events) :
                  /\ db.raw_events[i].timestamp = event.timestamp
                  /\ db.raw_events[i].episode_id = None
                  /\ db.raw_events[i].exit_code = 0

\* ------------------------------------------- one raw event per event
\* C27: every call of processEvent adds exactly one raw event record to the
\* store (so that the raw events are as many as the events processed), the
\* earlier records kept, and when no episode is extracted that record is
\* linked to no episode.
C27_OneRawEventPerProcessedEvent ==
    [][last'.op = "processEvent" =>
           /\ Len(db'.raw_events) = Len(db.raw_events) + 1
           /\ SubSeq(db'.raw_events, 1, Len(db.raw_events)) = db.raw_events
           /\ (last'.returned = None =>
                   db'.raw_events[Len(db'.raw_events)].episode_id = None)]_vars

\* ------------------------------------------- raw events and their episode
\* C28: every raw event that carries an episode_id refers to an episode of
\* the store, in the database of the process and in the file saved.
C28_LinkedRawEventsHaveTheirEpisode ==
    \A d \in {db, file} : \A k \in 1..Len(d.raw_events) :
        \A id \in d.raw_events[k].episode_id :
            \E i \in 1..Len(d.episodes) : d.episodes[i].id = id

\* ------------------------------------------- the embedding, read back
\* C29: the episode extractEpisode has just inserted, read back from the
\* store, carries the embedding it was inserted with.
C29_EmbeddingReadBackIsWritten ==
    last.op = "extractEpisode" =>
        \A episode \in last.returned :
            \A read \in Range(getEpisodesByProject(db, episode.project_hash)) :
                read.id = episode.id => read.embedding = episode.embedding

\* ------------------------------------------------ sessions on one file
\* The events of this session and of another session of the same host, in the
\* same directory
SessionEvents(session_id) ==
    {[TerminalEvent(now, "/srv/app", CmdLs, o[1], o[2]) EXCEPT !.session_id = session_id] :
        o \in Outcomes}

\* Another process: initDb reads the file, processEvent handles the event,
\* and saveDb writes the whole database of that process to the file
PeerProcessEventCall(event) ==
    \E done \in {processEvent(file, now, event, None)} :
        /\ file' = Saved(done.db)
        /\ last' = [Idle EXCEPT !.op = "peer.processEvent", !.event = Some(event),
                                !.window = done.following, !.returned = done.returned]
        /\ UNCHANGED <<db, now, calls>>

\* This process starts (initDb) and handles events while another session
\* does the same on the same file
NextSessions ==
    \/ Tick
    \/ InitDbCall(TRUE)
    \/ \E e \in SessionEvents("host-1") : ProcessEventCall(e, None) /\ Fits(db')
    \/ \E e \in SessionEvents("host-2") : PeerProcessEventCall(e) /\ Fits(file')

SpecSessions == Init /\ [][NextSessions]_vars

\* C30: no write a session committed to the file is lost: every raw event of
\* the file and every episode of the file is still in the file after any
\* step of any session.
C30_NoCommittedWriteIsLost ==
    [][/\ Range(file.raw_events) \subseteq Range(file'.raw_events)
       /\ EpisodeIds(file) \subseteq EpisodeIds(file')]_vars

\* ------------------------------------------------- the suggested command
\* A command line that chains two commands
CmdChain == <<"l", "s", " ", "&", "&", " ", "m", "a", "k", "e">>

\* What follows an error: a failure without error text, a success, or the
\* success of a chained command line
SuggestFollowUps ==
    {TerminalEvent(now, "/srv/app", CmdLs, 1, ErrNone),
     TerminalEvent(now, "/srv/app", CmdMake, 0, ErrNone),
     TerminalEvent(now, "/srv/app", CmdChain, 0, ErrNone)}

SuggestErrors == {e \in RetrievalErrors : e.cwd = "/srv/app"}

NextSuggest ==
    \/ Tick
    \/ \E e \in SuggestErrors : \E w \in SeqsUpTo(SuggestFollowUps, 2) :
         ExtractEpisodeCall(e, w, Some(<<Rat(3, 1), Rat(4, 1)>>)) /\ Fits(db')
    \/ \E e \in SuggestErrors : \E emb \in QueryEmbeddings :
         RetrieveAndSuggestCall(ContextOf(e), emb)

SpecSuggest == Init /\ [][NextSuggest]_vars

\* The commands that succeeded after the error of episode id, as the raw
\* events linked to the episode record them
FixCommandsOf(d, id) ==
    LET CommandLines(events) == Tup([k \in 1..Len(events) |-> events[k].command])
    IN  CommandLines(SelectSeq(Tail(LinkedTo(d, id)), LAMBDA r : r.exit_code = 0))

\* C31: when retrieveAndSuggest shows a suggestion, its suggestedCommand is
\* the whole command line of the first successful command recorded for the
\* episode it shows, and null when the episode was stored without a fix.
C31_SuggestedCommandIsFirstFix ==
    last.op = "retrieveAndSuggest" /\ last.suggestion.shouldShow =>
        \A context \in last.context :
        \A fix \in {FixCommandsOf(db, retrieveSimilarEpisodes(db, context, 1,
                                                              last.embedding)[1].episode.id)} :
            last.suggestion.suggestedCommand =
                IF fix = <<>> THEN None ELSE Some(fix[1])

\* ------------------------------------ the episode and the suggestion
\* C32: when handleTerminalEvent returns both a newly created episode and a
\* suggestion that is shown, the suggestion is built from another episode,
\* one that was in the store before this event.
C32_SuggestionIsFromEarlierEpisode ==
    /\ last.op = "handleTerminalEvent.return"
    /\ last.suggestion.shouldShow
    => \A episode \in last.returned : \A context \in last.context :
       \A store \in last.args[2] :
           retrieveSimilarEpisodes(store, context, 1, last.embedding)[1].episode.id
               # episode.id

====
